---- MODULE Spec2Model ----
(***************************************************************************)
(* A model of pyaprilaire: the connection supervisor (SocketClient), the   *)
(* protocol session (_AprilaireClientProtocol) with its outbound queue,    *)
(* and the client built on them (AprilaireClient).                         *)
(*                                                                         *)
(* The program runs on one asyncio event loop.  A step of the model is     *)
(* what one callback or one coroutine does between two suspension points   *)
(* (an await that really suspends); everything between two suspensions is  *)
(* atomic, as it is on the event loop.                                     *)
(***************************************************************************)
EXTENDS Integers, Sequences, FiniteSets, TLC

\* ------------------------------------------------------------------ bounds
\* Coroutines (tasks) of the supervisor that may exist at the same time.
MaxTasks == 3
\* Transports (sockets) that may exist at the same time.
MaxSockets == 2
\* Messages one session queues.
MaxMsgs == 3
\* Connections one session object is given (connection_made calls).
MaxConns == 2
\* Packets decoded from the data one session receives.
MaxRx == 2
\* Packets decoded from one call of data_received.
MaxBuf == 2
\* Calls of wait_for_response.
MaxWaiters == 2
\* Frames the peer sends before the bytes are parsed.
MaxFrames == 2
\* Messages one session sends in a long life: enough for its sequence to wrap.
MaxSent == 130
\* Messages in the queue of a long session at a time.
MaxQueue == 2

\* ------------------------------------------------------------------- state
VARIABLES
  connected,                 \* SocketClient.connected
  stopped,                   \* SocketClient.stopped
  reconnecting,              \* SocketClient.reconnecting
  auto_reconnecting,         \* SocketClient.auto_reconnecting
  reconnect_break_future,    \* SocketClient.reconnect_break_future: "none" (None),
                             \* or the state of the referenced future
  protocol,                  \* SocketClient.protocol is not None
  sock,                      \* the transports the event loop holds, as a bag:
                             \* sock[x] is the number of transports in state x
  task,                      \* the supervisor's coroutines, as a bag: task[x] is
                             \* the number of coroutines suspended in state x
  reconnect_interval,        \* configuration: 0 stands for None or 0
  retry_connection_interval, \* configuration: 0 stands for None or 0
  notified,                  \* the last tuple state_changed delivered
  notes,                     \* the tuples state_changed delivered in the last step
  last,                      \* the handler the last step ran
  fault,                     \* an exception escaped a handler
  \* One protocol session (an _AprilaireClientProtocol object):
  packet_queue,              \* _AprilaireClientProtocol.packet_queue
  sequence,                  \* _AprilaireClientProtocol.sequence
  sess_transport,            \* _AprilaireClientProtocol.transport: the number of
                             \* the connection, 0 for None
  queue_loops,               \* the _queue_loop tasks of the session that run
  written,                   \* what transport.write was given, in order, each
                             \* with the connection it was written on
  dropped,                   \* the messages a flush cycle removed without a
                             \* transport
  sent,                      \* the messages _send_packet has queued so far
  conns,                     \* the connections made so far
  calls,                     \* the messages the callers have sent so far
  open_conns,                \* the connections made whose connection_lost has
                             \* not run yet
  made_at,                   \* made_at[c] is `sent` at connection_made of c
  update_status,             \* the _update_status tasks inside their sleep(2)
  booted,                    \* the _update_status tasks that have run
  \* The client's side of the session (AprilaireClient) and the event loop:
  ready,                     \* the tasks made with ensure_future that have not
                             \* run yet, in the order they were made
  delivered,                 \* what the subscriber was given, in order
  requests,                  \* the calls of reconnect_action so far
  futures,                   \* AprilaireClient.futures: key -> list of waiters
  waiter,                    \* the calls of wait_for_response: their future and
                             \* what they returned
  rx,                        \* the packets decoded from received data so far,
                             \* in order
  \* The codec (Packet), whose functions keep no state: the arguments and
  \* the result of the call at hand.
  wire,                      \* the bytes at hand: what serialize returned, or
                             \* what the peer put on the wire
  origin,                    \* what the bytes of `wire` were made from
  parsed,                    \* what Packet.parse made of `wire`
  calc                       \* a call of a value codec and its result

supVars == <<connected, stopped, reconnecting, auto_reconnecting,
             reconnect_break_future, protocol, sock, task,
             reconnect_interval, retry_connection_interval, notified, notes,
             last, fault>>

sessVars == <<packet_queue, sequence, sess_transport, queue_loops, written,
              dropped, sent, conns, calls, open_conns, made_at, update_status,
              booted>>

clientVars == <<ready, delivered, requests, futures, waiter, rx>>

codecVars == <<wire, origin, parsed, calc>>

vars == <<supVars, sessVars, clientVars, codecVars>>

\* The intervals a client is built with, in seconds: 0 stands for None or 0.
Intervals == {0, 1}

\* A coroutine: kind "reconnect" is a call of _reconnect that runs as its own
\* task (or inside start_listen); kind "loop" is _auto_reconnect_loop, which
\* calls _reconnect(10) inline; kind "once" is a call of start_listen_once,
\* suspended in the create_connection of _reconnect_once.  pc is the suspension point; wake is the state
\* of the future a waiting loop waits on; w is the connect_wait_period of the
\* _reconnect call that has not started yet (0 for None or 0).
TaskRec(kind, pc, wake, w) == [kind |-> kind, pc |-> pc, wake |-> wake, w |-> w]

TaskStates ==
  {TaskRec("reconnect", "start", "-", w) : w \in Intervals \cup {10}}
  \cup {TaskRec(k, pc, "-", 0) : k \in {"reconnect", "loop"}, pc \in {"sleep", "connect"}}
  \cup {TaskRec("loop", "start", "-", 0)}
  \cup {TaskRec("loop", "wait", f, 0) : f \in {"pending", "resolved", "cancelled"}}
  \cup {TaskRec("once", "connect_once", "-", 0)}

\* A transport: st is "open" or "closing" (close() was called or the peer went
\* away: connection_lost is scheduled and has not run yet); bound says that
\* the protocol it calls back is the object SocketClient.protocol refers to;
\* cur says that it is that protocol's .transport.
SockRec(st, b, c) == [st |-> st, bound |-> b, cur |-> c]

SockStates ==
  {x \in {SockRec(st, b, c) : st \in {"open", "closing"}, b \in BOOLEAN, c \in BOOLEAN} :
     x.cur => x.bound}

\* The running coroutine of a step that no coroutine of the bag runs.
NoTask == TaskRec("free", "-", "-", 0)

Count(bag, S) ==
  LET RECURSIVE Sum(_)
      Sum(X) == IF X = {} THEN 0
                ELSE LET x == CHOOSE y \in X : TRUE IN bag[x] + Sum(X \ {x})
  IN Sum(S)

\* The fields of the client object as one record, so that the methods can be
\* written as functions from state to state and composed as the code calls them.
Self ==
  [connected |-> connected, stopped |-> stopped, reconnecting |-> reconnecting,
   auto_reconnecting |-> auto_reconnecting, fut |-> reconnect_break_future,
   protocol |-> protocol, sock |-> sock, task |-> task,
   notified |-> notified, notes |-> <<>>, fault |-> fault]

Flags(s) == <<s.connected, s.stopped, s.reconnecting>>

\* self.protocol.transport is not None
HasTransport(s) == \E x \in SockStates : x.cur /\ s.sock[x] > 0

\* AprilaireClient.state_changed: deliver the current tuple to the subscriber.
StateChanged(s) ==
  [s EXCEPT !.notes = Append(@, Flags(s)), !.notified = Flags(s)]

\* The coroutines in state x become coroutines in state y.
Retarget(bag, x, y) ==
  [z \in DOMAIN bag |-> IF z = x THEN 0
                        ELSE IF z = y THEN bag[y] + bag[x] ELSE bag[z]]

\* asyncio.ensure_future(coro), and a coroutine that suspends: one more
\* coroutine in state x.
Put(s, x) == IF x = NoTask THEN s ELSE [s EXCEPT !.task[x] = @ + 1]

\* The coroutine in state x is resumed: it leaves the bag for the step.
Take(s, x) == [s EXCEPT !.task[x] = @ - 1]

\* Future.set_result on reconnect_break_future: a pending future is resolved,
\* which wakes the loops waiting on it; a future that is already done raises
\* InvalidStateError.
SetResult(s) ==
  IF s.fut = "pending"
  THEN [state |-> [s EXCEPT
                     !.task = Retarget(@, TaskRec("loop", "wait", "pending", 0),
                                       TaskRec("loop", "wait", "resolved", 0)),
                     !.fut = "resolved"],
        raised |-> FALSE]
  ELSE [state |-> s, raised |-> TRUE]

\* _cancel_auto_reconnect_loop without its try/except: the InvalidStateError
\* of a future that is already done escapes.
_cancel_auto_reconnect_loop_Uncaught(s) ==
  IF s.fut = "none" THEN s
  ELSE IF SetResult(s).raised THEN [s EXCEPT !.fault = TRUE]
  ELSE [SetResult(s).state EXCEPT !.fut = "none"]

\* SocketClient._cancel_auto_reconnect_loop: nothing without a future; else
\* set_result inside try/except InvalidStateError, then forget the future.
_cancel_auto_reconnect_loop(s) ==
  IF s.fut = "none" THEN s
  ELSE LET r == SetResult(s)   \* r.raised is caught and passed over
       IN [r.state EXCEPT !.fut = "none"]

\* transport.close() on self.protocol.transport: idempotent; schedules
\* connection_lost.
CloseTransport(s) ==
  [s EXCEPT !.sock = Retarget(@, SockRec("open", TRUE, TRUE),
                              SockRec("closing", TRUE, TRUE))]

\* _disconnect without its call of state_changed.
_disconnect_Silent(s) ==
  LET s1 == _cancel_auto_reconnect_loop(s)
      s2 == [s1 EXCEPT !.connected = FALSE]
  IN IF s2.protocol /\ HasTransport(s2) THEN CloseTransport(s2) ELSE s2

\* SocketClient._disconnect
_disconnect(s) ==
  LET s1 == _cancel_auto_reconnect_loop(s)
      s2 == StateChanged([s1 EXCEPT !.connected = FALSE])
  IN IF s2.protocol /\ HasTransport(s2) THEN CloseTransport(s2) ELSE s2

\* _auto_reconnect_loop, from the head of `while True` to the wait_for.
LoopHead(s) ==
  IF s.stopped \/ ~s.connected
  THEN s
  ELSE LET f == IF s.fut = "none" THEN "pending" ELSE s.fut
       IN Put([s EXCEPT !.fut = f], TaskRec("loop", "wait", f, 0))

\* _reconnect returns to its caller: a task of its own ends, the liveness
\* loop goes round its `while True`.
Return(s, kind) ==
  IF kind = "loop" THEN LoopHead(s) ELSE s

\* self.protocol = self.create_protocol(): the transports that exist belong
\* to older protocol objects; then create_connection suspends.
CreateProtocolAndConnect(s, kind) ==
  Put([s EXCEPT !.protocol = TRUE,
                !.sock = [x \in SockStates |->
                            IF x.bound THEN 0
                            ELSE s.sock[x] + s.sock[SockRec(x.st, TRUE, FALSE)]
                                 + s.sock[SockRec(x.st, TRUE, TRUE)]]],
      TaskRec(kind, "connect", "-", 0))

\* _reconnect without its test of `reconnecting`.
ReconnectEnter_Unguarded(s, kind, w) ==
  LET s1 == StateChanged([s EXCEPT !.reconnecting = TRUE])
      s2 == _disconnect(s1)
  IN IF w > 0 THEN Put(s2, TaskRec(kind, "sleep", "-", 0))
     ELSE CreateProtocolAndConnect(s2, kind)

\* SocketClient._reconnect from its first line to its first suspension.
ReconnectEnter(s, kind, w) ==
  IF s.reconnecting THEN Return(s, kind)
  ELSE LET s1 == StateChanged([s EXCEPT !.reconnecting = TRUE])
           s2 == _disconnect(s1)
       IN IF w > 0 THEN Put(s2, TaskRec(kind, "sleep", "-", 0))
          ELSE CreateProtocolAndConnect(s2, kind)

\* The step's result becomes the next state.  The bounds of the model: no
\* more than MaxTasks coroutines and MaxSockets transports at a time.
Install(r, op, kind) ==
  /\ Count(r.task, TaskStates) <= MaxTasks
  /\ Count(r.sock, SockStates) <= MaxSockets
  /\ connected' = r.connected
  /\ stopped' = r.stopped
  /\ reconnecting' = r.reconnecting
  /\ auto_reconnecting' = r.auto_reconnecting
  /\ reconnect_break_future' = r.fut
  /\ protocol' = r.protocol
  /\ sock' = r.sock
  /\ task' = r.task
  /\ notified' = r.notified
  /\ notes' = r.notes
  /\ fault' = r.fault
  /\ last' = [op |-> op, kind |-> kind]
  /\ UNCHANGED <<reconnect_interval, retry_connection_interval>>
  /\ UNCHANGED sessVars
  /\ UNCHANGED clientVars
  /\ UNCHANGED codecVars

Init ==
  /\ connected = FALSE
  /\ stopped = TRUE
  /\ reconnecting = FALSE
  /\ auto_reconnecting = FALSE
  /\ reconnect_break_future = "none"
  /\ protocol = FALSE
  /\ sock = [x \in SockStates |-> 0]
  /\ task = [x \in TaskStates |-> 0]
  /\ reconnect_interval \in Intervals
  /\ retry_connection_interval \in Intervals
  /\ notified = <<>>
  /\ notes = <<>>
  /\ last = [op |-> "init", kind |-> "-"]
  /\ fault = FALSE
  /\ packet_queue = <<>>
  /\ sequence = 0
  /\ sess_transport = 0
  /\ queue_loops = 0
  /\ written = <<>>
  /\ dropped = {}
  /\ sent = 0
  /\ conns = 0
  /\ calls = 0
  /\ open_conns = {}
  /\ made_at = <<>>
  /\ update_status = 0
  /\ booted = 0
  /\ ready = <<>>
  /\ delivered = <<>>
  /\ requests = 0
  /\ futures = <<>>
  /\ waiter = <<>>
  /\ rx = <<>>
  /\ wire = <<>>
  /\ origin = [frames |-> <<>>, touched |-> "-"]
  /\ parsed = [done |-> FALSE, out |-> <<>>, raised |-> FALSE]
  /\ calc = [f |-> "-", arg |-> <<0>>, result |-> <<0>>, raised |-> FALSE]

\* ----------------------------------------------------------------- actions

\* SocketClient.start_listen, up to the suspension inside _reconnect().
StartListen ==
  LET s1 == StateChanged([Self EXCEPT !.stopped = FALSE])
  IN Install(ReconnectEnter(s1, "reconnect", 0), "start_listen", "-")

\* stop_listen that leaves `reconnecting` as it finds it.
StopListen_KeepsReconnecting ==
  LET s1 == [Self EXCEPT !.stopped = TRUE, !.connected = FALSE,
                         !.auto_reconnecting = FALSE]
  IN Install(_disconnect(StateChanged(s1)), "stop_listen", "-")

\* SocketClient.stop_listen
StopListen ==
  LET s1 == [Self EXCEPT !.stopped = TRUE, !.connected = FALSE,
                         !.reconnecting = FALSE, !.auto_reconnecting = FALSE]
  IN Install(_disconnect(StateChanged(s1)), "stop_listen", "-")

\* A _reconnect(w) scheduled with ensure_future starts to run.
ReconnectStart(x) ==
  /\ x.kind = "reconnect" /\ x.pc = "start" /\ task[x] > 0
  /\ Install(ReconnectEnter(Take(Self, x), "reconnect", x.w),
             "reconnect_start", "reconnect")

\* asyncio.sleep(connect_wait_period) in _reconnect is over.
SleepDone(x) ==
  /\ x.pc = "sleep" /\ task[x] > 0
  /\ Install(CreateProtocolAndConnect(Take(Self, x), x.kind),
             "sleep_done", x.kind)

\* create_connection succeeded: the event loop made a transport, asked the
\* protocol factory (lambda: self.protocol) for the protocol, called its
\* connection_made (which sets its .transport), and _reconnect resumed after
\* the await.
ConnectSuccess(x) ==
  /\ x.pc = "connect" /\ task[x] > 0
  /\ LET s0 == Take(Self, x)
         s1 == [s0 EXCEPT
                  !.sock = [y \in SockStates |->
                              IF y.cur THEN 0
                              ELSE s0.sock[y]
                                   + (IF y.bound THEN s0.sock[SockRec(y.st, TRUE, TRUE)] ELSE 0)],
                  !.sock[SockRec("open", TRUE, TRUE)] = 1]
         s2 == StateChanged([s1 EXCEPT !.connected = TRUE,
                                       !.reconnecting = FALSE,
                                       !.auto_reconnecting = FALSE])
         s3 == Put(s2, TaskRec("loop", "start", "-", 0))
     IN Install(Return(s3, x.kind), "connect_ok", x.kind)

\* The except branch of _reconnect without the ensure_future of the retry.
ConnectFail_NoRetry(x) ==
  /\ x.pc = "connect" /\ task[x] > 0
  /\ LET s1 == StateChanged([Take(Self, x) EXCEPT !.reconnecting = FALSE])
     IN Install(Return(s1, x.kind), "connect_fail", x.kind)

\* create_connection raised: the except branch of _reconnect.
ConnectFail(x) ==
  /\ x.pc = "connect" /\ task[x] > 0
  /\ LET s1 == StateChanged([Take(Self, x) EXCEPT !.reconnecting = FALSE])
         s2 == Put(s1, TaskRec("reconnect", "start", "-", 10))
     IN Install(Return(s2, x.kind), "connect_fail", x.kind)

\* An _auto_reconnect_loop scheduled with ensure_future starts to run.
LoopStart(x) ==
  /\ x.kind = "loop" /\ x.pc = "start" /\ task[x] > 0
  /\ Install(IF reconnect_interval = 0 THEN Take(Self, x)
             ELSE LoopHead(Take(Self, x)),
             "loop_start", "loop")

\* wait_for returned (the future was resolved) or raised CancelledError (the
\* future was cancelled): the loop breaks.
LoopWake(x) ==
  /\ x.pc = "wait" /\ x.wake \in {"resolved", "cancelled"} /\ task[x] > 0
  /\ Install(Take(Self, x), "loop_wake", "loop")

\* A timeout that only goes round the loop: no notification, no reconnect.
LoopTimeout_NoReconnect(x) ==
  /\ x.pc = "wait" /\ x.wake = "pending" /\ task[x] > 0
  /\ LET s0 == Take(Self, x)
         s1 == [s0 EXCEPT
                  !.fut = "cancelled",
                  !.task = Retarget(@, TaskRec("loop", "wait", "pending", 0),
                                    TaskRec("loop", "wait", "cancelled", 0))]
     IN Install(LoopHead(s1), "loop_timeout", "loop")

\* wait_for timed out: it cancels the future it waited on, which is the one
\* reconnect_break_future refers to, and raises TimeoutError; the except
\* branch calls _reconnect(10).
LoopTimeout(x) ==
  /\ x.pc = "wait" /\ x.wake = "pending" /\ task[x] > 0
  /\ LET s0 == Take(Self, x)
         s1 == [s0 EXCEPT
                  !.fut = "cancelled",
                  !.task = Retarget(@, TaskRec("loop", "wait", "pending", 0),
                                    TaskRec("loop", "wait", "cancelled", 0))]
         s2 == StateChanged([s1 EXCEPT !.auto_reconnecting = TRUE])
     IN Install(ReconnectEnter(s2, "loop", 10), "loop_timeout", "loop")

\* The peer or the network ends an open connection: the transport closes
\* itself and schedules connection_lost.
LinkDrop(y) ==
  /\ y.st = "open" /\ sock[y] > 0
  /\ Install([Self EXCEPT !.sock[y] = @ - 1,
                          !.sock[SockRec("closing", y.bound, y.cur)] = @ + 1],
             "link_drop", "-")

\* connection_lost that does not schedule reconnect_action.
ConnectionLost_NoReconnect(y) ==
  /\ y.st = "closing" /\ sock[y] > 0
  /\ LET s0 == [Self EXCEPT !.sock[y] = @ - 1]
         s1 == IF y.bound
               THEN [s0 EXCEPT
                       !.sock = [z \in SockStates |->
                                   IF z.cur THEN 0
                                   ELSE s0.sock[z]
                                        + (IF z.bound THEN s0.sock[SockRec(z.st, TRUE, TRUE)] ELSE 0)]]
               ELSE s0
     IN Install(s1, "connection_lost", "-")

\* _AprilaireClientProtocol.connection_lost, called by a closed transport:
\* it sets its protocol's .transport to None and schedules reconnect_action,
\* which is AprilaireClient._reconnect_with_delay.
ConnectionLost(y) ==
  /\ y.st = "closing" /\ sock[y] > 0
  /\ LET s0 == [Self EXCEPT !.sock[y] = @ - 1]
         s1 == IF y.bound
               THEN [s0 EXCEPT
                       !.sock = [z \in SockStates |->
                                   IF z.cur THEN 0
                                   ELSE s0.sock[z]
                                        + (IF z.bound THEN s0.sock[SockRec(z.st, TRUE, TRUE)] ELSE 0)]]
               ELSE s0
     IN Install(Put(s1, TaskRec("reconnect", "start", "-",
                                retry_connection_interval)),
                "connection_lost", "-")

\* A direct call of SocketClient._disconnect.
DisconnectCall ==
  Install(_disconnect(Self), "_disconnect", "-")

\* SocketClient.start_listen_once, up to the suspension inside
\* _reconnect_once(): no test of `reconnecting`, no sleep.
StartListenOnce ==
  LET s1 == StateChanged([Self EXCEPT !.stopped = FALSE])
      s2 == StateChanged([s1 EXCEPT !.reconnecting = TRUE])
      s3 == _disconnect(s2)
      s4 == [s3 EXCEPT
               !.protocol = TRUE,
               !.sock = [x \in SockStates |->
                           IF x.bound THEN 0
                           ELSE s3.sock[x] + s3.sock[SockRec(x.st, TRUE, FALSE)]
                                + s3.sock[SockRec(x.st, TRUE, TRUE)]]]
  IN Install(Put(s4, TaskRec("once", "connect_once", "-", 0)),
             "start_listen_once", "-")

\* create_connection of _reconnect_once succeeded: the transport is made as
\* in _reconnect, the flags are set, the observer is told, and
\* start_listen_once returns.
OnceSuccess(x) ==
  /\ x.pc = "connect_once" /\ task[x] > 0
  /\ LET s0 == Take(Self, x)
         s1 == [s0 EXCEPT
                  !.sock = [y \in SockStates |->
                              IF y.cur THEN 0
                              ELSE s0.sock[y]
                                   + (IF y.bound THEN s0.sock[SockRec(y.st, TRUE, TRUE)] ELSE 0)],
                  !.sock[SockRec("open", TRUE, TRUE)] = 1]
         s2 == StateChanged([s1 EXCEPT !.connected = TRUE,
                                       !.reconnecting = FALSE,
                                       !.auto_reconnecting = FALSE])
     IN Install(s2, "once_ok", "once")

\* create_connection of _reconnect_once raised: nothing catches the
\* exception, which ends _reconnect_once and start_listen_once and reaches
\* the caller; no field is touched on the way.
OnceFail(x) ==
  /\ x.pc = "connect_once" /\ task[x] > 0
  /\ Install(Take(Self, x), "once_raised", "once")

Next ==
  \/ StartListen
  \/ StopListen
  \/ \E x \in TaskStates : ReconnectStart(x)
  \/ \E x \in TaskStates : SleepDone(x)
  \/ \E x \in TaskStates : ConnectSuccess(x)
  \/ \E x \in TaskStates : ConnectFail(x)
  \/ \E x \in TaskStates : LoopStart(x)
  \/ \E x \in TaskStates : LoopWake(x)
  \/ \E x \in TaskStates : LoopTimeout(x)
  \/ \E y \in SockStates : LinkDrop(y)
  \/ \E y \in SockStates : ConnectionLost(y)

Spec == Init /\ [][Next]_vars

\* The supervisor with _disconnect also called directly, as its tests do.
NextD == Next \/ DisconnectCall

SpecD == Init /\ [][NextD]_vars

\* The supervisor with callers that use start_listen_once as well, over a
\* link that does not drop and within one liveness interval.
NextO ==
  \/ StartListen
  \/ StopListen
  \/ \E x \in TaskStates : ReconnectStart(x)
  \/ \E x \in TaskStates : SleepDone(x)
  \/ \E x \in TaskStates : ConnectSuccess(x)
  \/ \E x \in TaskStates : ConnectFail(x)
  \/ \E x \in TaskStates : LoopStart(x)
  \/ \E x \in TaskStates : LoopWake(x)
  \/ \E y \in SockStates : ConnectionLost(y)
  \/ StartListenOnce
  \/ \E x \in TaskStates : OnceSuccess(x)
  \/ \E x \in TaskStates : OnceFail(x)

SpecO == Init /\ [][NextO]_vars

\* The supervisor over a link that neither fails nor is stopped: every
\* attempt succeeds, and a transport closes only because _reconnect (entered
\* from start_listen, from the liveness loop or from reconnect_action) called
\* _disconnect.  Every connection_lost is then that of a session the client
\* itself has replaced or is replacing.
NextP ==
  \/ StartListen
  \/ \E x \in TaskStates : ReconnectStart(x)
  \/ \E x \in TaskStates : SleepDone(x)
  \/ \E x \in TaskStates : ConnectSuccess(x)
  \/ \E x \in TaskStates : LoopStart(x)
  \/ \E x \in TaskStates : LoopWake(x)
  \/ \E x \in TaskStates : LoopTimeout(x)
  \/ \E y \in SockStates : ConnectionLost(y)

SpecP == Init /\ [][NextP]_vars

\* The steps the event loop takes by itself: a scheduled callback or task
\* runs, a timer fires, a call of create_connection returns (one way or the
\* other).  Calls from outside (start_listen, stop_listen) and the loss of a
\* link are under no obligation to happen.
InternalOps ==
  {"reconnect_start", "sleep_done", "connect_ok", "connect_fail",
   "loop_start", "loop_wake", "loop_timeout", "connection_lost"}

\* Nothing is left for the event loop to run.
Quiescent == Count(task, TaskStates) = 0 /\ Count(sock, {y \in SockStates : y.st = "closing"}) = 0

\* The event loop does not stop while it has something to run: weak fairness
\* of the internal steps taken together, WF_vars(internal step), with the
\* enabling condition written out as ~Quiescent.
Fairness == []<>Quiescent \/ []<><<last'.op \in InternalOps>>_vars

FairSpec == Spec /\ Fairness

\* ------------------------------------------------------------- session
\* The supervisor's fields, which a step of the session leaves alone.
supState == <<connected, stopped, reconnecting, auto_reconnecting,
              reconnect_break_future, protocol, sock, task,
              reconnect_interval, retry_connection_interval, notified, notes>>

\* A Packet as its maker builds it: action, functional domain, attribute and
\* the value of its one field (Write Scheduling/4 carries `hold`; for a
\* received Control/1 it is `mode`; the others carry none that matters here).
Packet(action, domain, attribute, value) ==
  [action |-> action, functional_domain |-> domain, attribute |-> attribute,
   value |-> value]

\* A queued Packet: its number in the order of _send_packet calls, the
\* sequence _send_packet gave it, and what its maker gave it.
Msg(id, seq, p) ==
  [id |-> id, sequence |-> seq, action |-> p.action,
   functional_domain |-> p.functional_domain, attribute |-> p.attribute,
   value |-> p.value]

\* A counter that does not wrap.
_get_sequence_NoWrap(n) == n + 1

\* _AprilaireClientProtocol._get_sequence
_get_sequence(n) == (n + 1) % 128

\* Packet.serialize ends in bytes(result), which raises ValueError unless
\* every element is in 0..255; a ReadRequest has the three header bytes only.
Serializable(m) == m.action = "READ_REQUEST" \/ m.value \in 0..255

\* The outbound side of the session as one record.
Out == [queue |-> packet_queue, sequence |-> sequence, sent |-> sent]

\* _AprilaireClientProtocol._send_packet: the queue has no size limit, so
\* `await self.packet_queue.put(packet)` never suspends.
_send_packet(o, p) ==
  [queue |-> Append(o.queue, Msg(o.sent + 1, _get_sequence(o.sequence), p)),
   sequence |-> _get_sequence(o.sequence),
   sent |-> o.sent + 1]

\* The packets of the methods of _AprilaireClientProtocol.
read_sensors == Packet("READ_REQUEST", "SENSORS", 2, 0)
read_control == Packet("READ_REQUEST", "CONTROL", 1, 0)
read_mac_address == Packet("READ_REQUEST", "IDENTIFICATION", 2, 0)
read_thermostat_status == Packet("READ_REQUEST", "CONTROL", 7, 0)
read_thermostat_name == Packet("READ_REQUEST", "IDENTIFICATION", 5, 0)
read_dehumidification_setpoint == Packet("READ_REQUEST", "CONTROL", 3, 0)
read_humidification_setpoint == Packet("READ_REQUEST", "CONTROL", 4, 0)
configure_cos == Packet("WRITE", "STATUS", 1, 1)
sync == Packet("WRITE", "STATUS", 2, 1)
set_hold(hold) == Packet("WRITE", "SCHEDULING", 4, hold)

\* The outbound side becomes o.
InstallOut(o) ==
  /\ packet_queue' = o.queue
  /\ sequence' = o.sequence
  /\ sent' = o.sent

\* A caller sends one packet through a method of the protocol.
Send(p) ==
  /\ calls < MaxMsgs
  /\ calls' = calls + 1
  /\ InstallOut(_send_packet(Out, p))
  /\ last' = [op |-> "_send_packet", kind |-> p.action]
  /\ UNCHANGED <<sess_transport, queue_loops, written, dropped, conns,
                 open_conns, made_at, update_status, booted, fault>>
  /\ UNCHANGED clientVars
  /\ UNCHANGED supState
  /\ UNCHANGED codecVars

\* _AprilaireClientProtocol.read_control, called from outside
ReadControl == Send(read_control)

\* _AprilaireClientProtocol.set_hold(hold)
SetHold(hold) == Send(set_hold(hold))

\* _AprilaireClientProtocol.read_sensors, called again and again over a long
\* session, the queue never holding more than MaxQueue messages.
ReadSensors ==
  /\ sent < MaxSent
  /\ Len(packet_queue) < MaxQueue
  /\ InstallOut(_send_packet(Out, read_sensors))
  /\ last' = [op |-> "_send_packet", kind |-> read_sensors.action]
  /\ UNCHANGED <<sess_transport, queue_loops, written, dropped, conns, calls,
                 open_conns, made_at, update_status, booted, fault>>
  /\ UNCHANGED clientVars
  /\ UNCHANGED supState
  /\ UNCHANGED codecVars

\* The holds the callers pass: one a byte can carry and one it cannot.
Holds == {1, 256}

\* The inner loop of _queue_loop: get_nowait until QueueEmpty; with a
\* transport, serialize and write each packet.  An exception of serialize is
\* not caught: it ends the loop with the rest of the queue in place.
RECURSIVE Drain(_, _, _, _)
Drain(q, tr, wr, dr) ==
  IF q = <<>> THEN [queue |-> q, written |-> wr, dropped |-> dr, raised |-> FALSE]
  ELSE IF tr = 0 THEN Drain(Tail(q), tr, wr, dr \cup {Head(q).id})
  ELSE IF Serializable(Head(q))
  THEN Drain(Tail(q), tr, Append(wr, [conn |-> tr, id |-> Head(q).id]), dr)
  ELSE [queue |-> Tail(q), written |-> wr, dropped |-> dr, raised |-> TRUE]

\* A flush cycle that leaves the queue alone while there is no transport.
QueueLoop_Requeue ==
  /\ queue_loops > 0
  /\ LET r == IF sess_transport = 0
              THEN [queue |-> packet_queue, written |-> written,
                    dropped |-> dropped, raised |-> FALSE]
              ELSE Drain(packet_queue, sess_transport, written, dropped)
     IN /\ packet_queue' = r.queue
        /\ written' = r.written
        /\ dropped' = r.dropped
        /\ queue_loops' = IF r.raised THEN queue_loops - 1 ELSE queue_loops
        /\ fault' = (fault \/ r.raised)
  /\ last' = [op |-> "_queue_loop", kind |-> "-"]
  /\ UNCHANGED <<sequence, sess_transport, sent, conns, calls, open_conns,
                 made_at, update_status, booted>>
  /\ UNCHANGED clientVars
  /\ UNCHANGED supState
  /\ UNCHANGED codecVars

\* One flush cycle: one round of the outer loop of _queue_loop, by one of the
\* session's _queue_loop tasks, which then sleeps QUEUE_FREQUENCY (or is over,
\* when serialize raised).
QueueLoop ==
  /\ queue_loops > 0
  /\ LET r == Drain(packet_queue, sess_transport, written, dropped)
     IN /\ packet_queue' = r.queue
        /\ written' = r.written
        /\ dropped' = r.dropped
        /\ queue_loops' = IF r.raised THEN queue_loops - 1 ELSE queue_loops
        /\ fault' = (fault \/ r.raised)
  /\ last' = [op |-> "_queue_loop", kind |-> "-"]
  /\ UNCHANGED <<sequence, sess_transport, sent, conns, calls, open_conns,
                 made_at, update_status, booted>>
  /\ UNCHANGED clientVars
  /\ UNCHANGED supState
  /\ UNCHANGED codecVars

\* _AprilaireClientProtocol._empty_packet_queue
_empty_packet_queue(q) == <<>>

\* connection_made without its call of _empty_packet_queue.
SessionConnectionMade_KeepsQueue ==
  /\ conns < MaxConns
  /\ conns' = conns + 1
  /\ sess_transport' = conns'
  /\ open_conns' = open_conns \cup {conns'}
  /\ made_at' = Append(made_at, sent)
  /\ queue_loops' = queue_loops + 1
  /\ update_status' = update_status + 1
  /\ last' = [op |-> "connection_made", kind |-> "-"]
  /\ UNCHANGED <<packet_queue, sequence, written, dropped, sent, calls, booted,
                 fault>>
  /\ UNCHANGED clientVars
  /\ UNCHANGED supState
  /\ UNCHANGED codecVars

\* _AprilaireClientProtocol.connection_made: the transport is kept, the queue
\* emptied, and _queue_loop and _update_status are started.
SessionConnectionMade ==
  /\ conns < MaxConns
  /\ conns' = conns + 1
  /\ sess_transport' = conns'
  /\ open_conns' = open_conns \cup {conns'}
  /\ packet_queue' = _empty_packet_queue(packet_queue)
  /\ made_at' = Append(made_at, sent)
  /\ queue_loops' = queue_loops + 1
  /\ update_status' = update_status + 1
  /\ last' = [op |-> "connection_made", kind |-> "-"]
  /\ UNCHANGED <<sequence, written, dropped, sent, calls, booted, fault>>
  /\ UNCHANGED clientVars
  /\ UNCHANGED supState
  /\ UNCHANGED codecVars

\* The packets _update_status sends, in its order.
BootstrapPackets ==
  <<read_mac_address, read_thermostat_status, read_control, read_sensors,
    read_thermostat_name, configure_cos, read_dehumidification_setpoint,
    read_humidification_setpoint, sync>>

\* Only the first packet is sent before something else runs.
SendAll_First(o, ps) ==
  IF ps = <<>> THEN o ELSE _send_packet(o, Head(ps))

\* o after _send_packet of each packet of ps, in order.
RECURSIVE SendAll(_, _)
SendAll(o, ps) ==
  IF ps = <<>> THEN o ELSE SendAll(_send_packet(o, Head(ps)), Tail(ps))

\* An _update_status that sends its packets for the first connection only.
UpdateStatus_Once ==
  /\ update_status > 0
  /\ update_status' = update_status - 1
  /\ booted' = booted + 1
  /\ InstallOut(IF booted = 0 THEN SendAll(Out, BootstrapPackets) ELSE Out)
  /\ last' = [op |-> "_update_status", kind |-> "-"]
  /\ UNCHANGED <<sess_transport, queue_loops, written, dropped, conns, calls,
                 open_conns, made_at, fault>>
  /\ UNCHANGED clientVars
  /\ UNCHANGED supState
  /\ UNCHANGED codecVars

\* _AprilaireClientProtocol._update_status after its sleep(2): nine sends,
\* none of which suspends.
UpdateStatus ==
  /\ update_status > 0
  /\ update_status' = update_status - 1
  /\ booted' = booted + 1
  /\ InstallOut(SendAll(Out, BootstrapPackets))
  /\ last' = [op |-> "_update_status", kind |-> "-"]
  /\ UNCHANGED <<sess_transport, queue_loops, written, dropped, conns, calls,
                 open_conns, made_at, fault>>
  /\ UNCHANGED clientVars
  /\ UNCHANGED supState
  /\ UNCHANGED codecVars

\* ensure_future(coro): the event loop runs the tasks it is given in the
\* order it was given them.
Deliver(p, n) == [t |-> "data_received", p |-> p, n |-> n]
ReRead == [t |-> "read_control", p |-> read_control, n |-> 0]
ReconnectAction == [t |-> "reconnect_action", p |-> read_control, n |-> 0]

\* The notification connection_lost makes up.
Unavailable == Packet("NONE", "NONE", 0, 0)

\* A connection_lost that schedules reconnect_action before the callback.
SessionConnectionLost_ReconnectFirst(c) ==
  /\ c \in open_conns
  /\ open_conns' = open_conns \ {c}
  /\ sess_transport' = 0
  /\ ready' = ready \o <<ReconnectAction, Deliver(Unavailable, 0)>>
  /\ last' = [op |-> "connection_lost", kind |-> "-"]
  /\ UNCHANGED <<packet_queue, sequence, queue_loops, written, dropped, sent,
                 conns, calls, made_at, update_status, booted, fault>>
  /\ UNCHANGED <<delivered, requests, futures, waiter, rx>>
  /\ UNCHANGED supState
  /\ UNCHANGED codecVars

\* A connection_lost that rejects the waiters: every pending future is
\* cancelled and the table cleared.
SessionConnectionLost_CancelsWaiters(c) ==
  /\ c \in open_conns
  /\ open_conns' = open_conns \ {c}
  /\ sess_transport' = 0
  /\ ready' = ready \o <<Deliver(Unavailable, 0), ReconnectAction>>
  /\ waiter' = [w \in 1..Len(waiter) |->
                  IF waiter[w].fut = "pending"
                  THEN [waiter[w] EXCEPT !.fut = "cancelled"]
                  ELSE waiter[w]]
  /\ futures' = <<>>
  /\ last' = [op |-> "connection_lost", kind |-> "-"]
  /\ UNCHANGED <<packet_queue, sequence, queue_loops, written, dropped, sent,
                 conns, calls, made_at, update_status, booted, fault>>
  /\ UNCHANGED <<delivered, requests, rx>>
  /\ UNCHANGED supState
  /\ UNCHANGED codecVars

\* _AprilaireClientProtocol.connection_lost of connection c: the callback is
\* scheduled with (NONE, 0, {available: False}), the transport forgotten,
\* reconnect_action scheduled.
SessionConnectionLost(c) ==
  /\ c \in open_conns
  /\ open_conns' = open_conns \ {c}
  /\ sess_transport' = 0
  /\ ready' = ready \o <<Deliver(Unavailable, 0), ReconnectAction>>
  /\ last' = [op |-> "connection_lost", kind |-> "-"]
  /\ UNCHANGED <<packet_queue, sequence, queue_loops, written, dropped, sent,
                 conns, calls, made_at, update_status, booted, fault>>
  /\ UNCHANGED <<delivered, requests, futures, waiter, rx>>
  /\ UNCHANGED supState
  /\ UNCHANGED codecVars

\* ------------------------------------------------------------- client
\* reconnect_action runs: AprilaireClient._reconnect_with_delay is called.
RunReconnectAction ==
  /\ ready # <<>> /\ Head(ready).t = "reconnect_action"
  /\ ready' = Tail(ready)
  /\ requests' = requests + 1
  /\ last' = [op |-> "reconnect_action", kind |-> "-"]
  /\ UNCHANGED <<delivered, futures, waiter, rx, fault>>
  /\ UNCHANGED sessVars
  /\ UNCHANGED supState
  /\ UNCHANGED codecVars

\* The read_control that data_received scheduled runs.
RunReRead ==
  /\ ready # <<>> /\ Head(ready).t = "read_control"
  /\ ready' = Tail(ready)
  /\ InstallOut(_send_packet(Out, Head(ready).p))
  /\ last' = [op |-> "read_control", kind |-> "-"]
  /\ UNCHANGED <<sess_transport, queue_loops, written, dropped, conns, calls,
                 open_conns, made_at, update_status, booted, fault>>
  /\ UNCHANGED <<delivered, requests, futures, waiter, rx>>
  /\ UNCHANGED supState
  /\ UNCHANGED codecVars

\* The packets a call of data_received decodes.  A NackPacket carries the
\* attribute that was refused as its value.
InPackets ==
  {Packet("NACK", "NACK", 0, 1),
   Packet("COS", "CONTROL", 1, 1),
   Packet("COS", "CONTROL", 1, 2),
   Packet("READ_RESPONSE", "CONTROL", 1, 1),
   Packet("READ_RESPONSE", "SENSORS", 2, 0)}

\* The received packets that answer a request.
Responses == {p \in InPackets : p.action = "READ_RESPONSE"}

\* What Packet.parse yields from one call of data_received.
Buffers == UNION {[1..k -> InPackets] : k \in 1..MaxBuf}

\* A data_received that leaves its loop at a NackPacket.
RECURSIVE Dispatch_StopsAtNack(_, _)
Dispatch_StopsAtNack(buf, n) ==
  IF buf = <<>> THEN <<>>
  ELSE LET p == Head(buf)
           rest == Dispatch_StopsAtNack(Tail(buf), n + 1)
       IN IF p.action = "NACK" THEN <<>>
          ELSE IF /\ p.action = "COS" /\ p.functional_domain = "CONTROL"
                  /\ p.attribute = 1 /\ p.value = 1
          THEN <<ReRead>> \o rest
          ELSE <<Deliver(p, n + 1)>> \o rest

\* A data_received that forwards the ChangeOfState it re-reads for.
RECURSIVE Dispatch_AlsoForwards(_, _)
Dispatch_AlsoForwards(buf, n) ==
  IF buf = <<>> THEN <<>>
  ELSE LET p == Head(buf)
           rest == Dispatch_AlsoForwards(Tail(buf), n + 1)
       IN IF p.action = "NACK" THEN rest
          ELSE IF /\ p.action = "COS" /\ p.functional_domain = "CONTROL"
                  /\ p.attribute = 1 /\ p.value = 1
          THEN <<ReRead, Deliver(p, n + 1)>> \o rest
          ELSE <<Deliver(p, n + 1)>> \o rest

\* The loop of _AprilaireClientProtocol.data_received over the packets of
\* buf, the first of which is packet number n + 1: the tasks it schedules.
RECURSIVE Dispatch(_, _)
Dispatch(buf, n) ==
  IF buf = <<>> THEN <<>>
  ELSE LET p == Head(buf)
           rest == Dispatch(Tail(buf), n + 1)
       IN IF p.action = "NACK" THEN rest
          ELSE IF /\ p.action = "COS" /\ p.functional_domain = "CONTROL"
                  /\ p.attribute = 1 /\ p.value = 1
          THEN <<ReRead>> \o rest
          ELSE <<Deliver(p, n + 1)>> \o rest

\* _AprilaireClientProtocol.data_received, called by an open transport.
DataReceived(buf) ==
  /\ open_conns # {}
  /\ Len(rx) + Len(buf) <= MaxRx
  /\ rx' = rx \o buf
  /\ ready' = ready \o Dispatch(buf, Len(rx))
  /\ last' = [op |-> "data_received", kind |-> "-"]
  /\ UNCHANGED <<delivered, requests, futures, waiter, fault>>
  /\ UNCHANGED sessVars
  /\ UNCHANGED supState
  /\ UNCHANGED codecVars

\* A call of wait_for_response: its key, whether its timeout is a number (not
\* None), its future, whether its timer has fired, and what it returned
\* ("-" while it has not returned) with the data it returned.
Waiter(key, timeout) ==
  [key |-> key, timeout |-> timeout, fut |-> "pending", data |-> 0,
   timed |-> FALSE, returned |-> "-", value |-> 0]

\* The keys the callers wait on.
Keys == {<<"CONTROL", 1>>, <<"SENSORS", 2>>}

\* AprilaireClient.wait_for_response up to its await.
WaitForResponse(key, timeout) ==
  /\ Len(waiter) < MaxWaiters
  /\ waiter' = Append(waiter, Waiter(key, timeout))
  /\ futures' = IF key \in DOMAIN futures
                THEN [futures EXCEPT ![key] = Append(@, Len(waiter) + 1)]
                ELSE futures @@ (key :> <<Len(waiter) + 1>>)
  /\ last' = [op |-> "wait_for_response", kind |-> "-"]
  /\ UNCHANGED <<ready, delivered, requests, rx, fault>>
  /\ UNCHANGED sessVars
  /\ UNCHANGED supState
  /\ UNCHANGED codecVars

\* A timer that cancels every pending future registered under the key of w.
TimerFires_CancelsAll(w, now) ==
  /\ w \in 1..Len(waiter)
  /\ waiter[w].returned = "-" /\ waiter[w].timeout /\ ~waiter[w].timed
  /\ waiter' = [v \in 1..Len(waiter) |->
                  IF v = w
                  THEN [waiter[v] EXCEPT !.timed = TRUE,
                                         !.fut = IF @ = "pending" THEN "cancelled" ELSE @]
                  ELSE IF waiter[v].key = waiter[w].key /\ waiter[v].fut = "pending"
                  THEN [waiter[v] EXCEPT !.fut = "cancelled"]
                  ELSE waiter[v]]
  /\ last' = [op |-> "timeout", kind |-> "-"]
  /\ UNCHANGED <<ready, delivered, requests, futures, rx, fault>>
  /\ UNCHANGED sessVars
  /\ UNCHANGED supState
  /\ UNCHANGED codecVars

\* The timer of wait_for fires for waiter w.  What it does to the future
\* depends on the asyncio at hand: it only wakes the waiting call, which
\* cancels the future when it resumes (wait_for up to Python 3.11), or it
\* cancels the call and with it a future that is still pending (3.12).
TimerFires(w, now) ==
  /\ w \in 1..Len(waiter)
  /\ waiter[w].returned = "-" /\ waiter[w].timeout /\ ~waiter[w].timed
  /\ waiter' = [waiter EXCEPT
                  ![w].timed = TRUE,
                  ![w].fut = IF now /\ @ = "pending" THEN "cancelled" ELSE @]
  /\ last' = [op |-> "timeout", kind |-> "-"]
  /\ UNCHANGED <<ready, delivered, requests, futures, rx, fault>>
  /\ UNCHANGED sessVars
  /\ UNCHANGED supState
  /\ UNCHANGED codecVars

\* wait_for_response resumes and returns: the data of the future, or None
\* after the TimeoutError of wait_for.  With the future resolved and the
\* timer fired, wait_for returns the result (up to Python 3.11) or raises
\* TimeoutError (3.12): keep says which.
Resume(w, keep) ==
  /\ w \in 1..Len(waiter)
  /\ waiter[w].returned = "-"
  /\ waiter[w].fut # "pending" \/ waiter[w].timed
  /\ waiter' =
       IF waiter[w].fut = "result" /\ (keep \/ ~waiter[w].timed)
       THEN [waiter EXCEPT ![w].returned = "data", ![w].value = waiter[w].data]
       ELSE [waiter EXCEPT ![w].returned = "None",
                           ![w].fut = IF @ = "pending" THEN "cancelled" ELSE @]
  /\ last' = [op |-> "resume", kind |-> "-"]
  /\ UNCHANGED <<ready, delivered, requests, futures, rx, fault>>
  /\ UNCHANGED sessVars
  /\ UNCHANGED supState
  /\ UNCHANGED codecVars

\* A loop that resolves the first future of the list only.
Complete_FirstOnly(wt, ws, n) ==
  IF ws = <<>> \/ wt[Head(ws)].fut # "pending" THEN [wt |-> wt, raised |-> FALSE]
  ELSE [wt |-> [wt EXCEPT ![Head(ws)].fut = "result", ![Head(ws)].data = n],
        raised |-> FALSE]

\* The loop without its try/except: the InvalidStateError of a future that is
\* done ends the loop and escapes the handler.
RECURSIVE Complete_Unguarded(_, _, _)
Complete_Unguarded(wt, ws, n) ==
  IF ws = <<>> THEN [wt |-> wt, raised |-> FALSE]
  ELSE IF wt[Head(ws)].fut # "pending" THEN [wt |-> wt, raised |-> TRUE]
  ELSE Complete_Unguarded([wt EXCEPT ![Head(ws)].fut = "result", ![Head(ws)].data = n],
                          Tail(ws), n)

\* future.set_result(data) for each waiter of ws, in order, inside
\* try/except InvalidStateError: a future that is done stays as it is and
\* nothing is raised to the caller.
RECURSIVE Complete(_, _, _)
Complete(wt, ws, n) ==
  IF ws = <<>> THEN [wt |-> wt, raised |-> FALSE]
  ELSE Complete(IF wt[Head(ws)].fut = "pending"
                THEN [wt EXCEPT ![Head(ws)].fut = "result", ![Head(ws)].data = n]
                ELSE wt,
                Tail(ws), n)

\* self.futures.pop(future_key, [])
Pop(table, key) == [k \in DOMAIN table \ {key} |-> table[k]]

\* The sequence q without its element at place i.
Without(q, i) == SubSeq(q, 1, i - 1) \o SubSeq(q, i + 1, Len(q))

\* An event loop that runs the scheduled callbacks in any order.
RunDataReceived_AnyOrder ==
  \E i \in 1..Len(ready) :
    /\ ready[i].t = "data_received"
    /\ ready' = Without(ready, i)
    /\ delivered' = Append(delivered, [n |-> ready[i].n, p |-> ready[i].p])
    /\ LET p == ready[i].p
           key == <<p.functional_domain, p.attribute>>
           r == Complete(waiter,
                         IF key \in DOMAIN futures THEN futures[key] ELSE <<>>,
                         ready[i].n)
       IN IF p.functional_domain = "NONE" \/ p.attribute = 0
          THEN UNCHANGED <<futures, waiter, fault>>
          ELSE /\ futures' = Pop(futures, key)
               /\ waiter' = r.wt
               /\ fault' = (fault \/ r.raised)
    /\ last' = [op |-> "deliver", kind |-> ready[i].p.functional_domain]
    /\ UNCHANGED <<requests, rx>>
    /\ UNCHANGED sessVars
    /\ UNCHANGED supState
    /\ UNCHANGED codecVars

\* AprilaireClient.data_received, the task the protocol scheduled: the
\* subscriber is called; without a domain or an attribute that is all; else
\* the waiters of the key are taken from the table and resolved.
RunDataReceived ==
  /\ ready # <<>> /\ Head(ready).t = "data_received"
  /\ ready' = Tail(ready)
  /\ delivered' = Append(delivered, [n |-> Head(ready).n, p |-> Head(ready).p])
  /\ LET p == Head(ready).p
         key == <<p.functional_domain, p.attribute>>
         r == Complete(waiter,
                       IF key \in DOMAIN futures THEN futures[key] ELSE <<>>,
                       Head(ready).n)
     IN IF p.functional_domain = "NONE" \/ p.attribute = 0
        THEN UNCHANGED <<futures, waiter, fault>>
        ELSE /\ futures' = Pop(futures, key)
             /\ waiter' = r.wt
             /\ fault' = (fault \/ r.raised)
  /\ last' = [op |-> "deliver", kind |-> Head(ready).p.functional_domain]
  /\ UNCHANGED <<requests, rx>>
  /\ UNCHANGED sessVars
  /\ UNCHANGED supState
  /\ UNCHANGED codecVars

\* --------------------------------------------------------------- codec
\* Python values as the codec meets them, each a tuple of integers so that
\* any two can be compared.  Numbers are counted in halves: the int 21 is
\* Num(42), the float 26.5 is Num(53), and 21 equals 21.0 as in Python.
PyNone == <<0>>
Num(h) == <<1, h>>
PyInt(n) == Num(2 * n)
List(b) == <<2>> \o b
Str(c) == <<3>> \o c

IsInt(v) == v[1] = 1 /\ v[2] % 2 = 0
IsNum(v) == v[1] = 1
IsList(v) == v[1] = 2
IsStr(v) == v[1] = 3
\* The items of a list, the characters of a str.
Items(v) == Tail(v)

\* a ^ b and a | b of non-negative integers.
RECURSIVE Xor(_, _)
Xor(a, b) ==
  IF a = 0 THEN b ELSE IF b = 0 THEN a
  ELSE ((a + b) % 2) + 2 * Xor(a \div 2, b \div 2)

RECURSIVE Or(_, _)
Or(a, b) ==
  IF a = 0 THEN b ELSE IF b = 0 THEN a
  ELSE (IF a % 2 = 1 \/ b % 2 = 1 THEN 1 ELSE 0) + 2 * Or(a \div 2, b \div 2)

\* crc_calculator: width 8, polynomial 0x31, init 0, no reflection, no final
\* xor.  One bit of the register, the eight bits of one byte, the bytes.
CrcShift(c) == IF c >= 128 THEN Xor((2 * c) % 256, 49) ELSE 2 * c

RECURSIVE CrcShifts(_, _)
CrcShifts(c, n) == IF n = 0 THEN c ELSE CrcShifts(CrcShift(c), n - 1)

CrcTable == [b \in 0..255 |-> CrcShifts(b, 8)]

RECURSIVE Checksum(_, _, _)
Checksum(lst, i, c) ==
  IF i > Len(lst) THEN c
  ELSE LET next == CrcTable[Xor(c, lst[i])]
       IN IF next \in 0..255 THEN Checksum(lst, i + 1, next) ELSE -1

\* Packet._generate_crc and Packet._verify_crc
_generate_crc(lst) == Checksum(lst, 1, 0)
_verify_crc(lst, crc) == _generate_crc(lst) = crc

\* class Action, class FunctionalDomain: the numbers that are members.
Action ==
  [NONE |-> 0, WRITE |-> 1, READ_REQUEST |-> 2, READ_RESPONSE |-> 3, COS |-> 5,
   NACK |-> 6]
Actions == {0, 1, 2, 3, 5, 6}
FunctionalDomains == (0..10) \cup {13, 14, 15, 16}

\* An entry of MAPPING: (name, type) or (name, TEXT, length); (None, None) is
\* a byte that carries nothing.
Field(name, type) == [name |-> name, type |-> type, len |-> 0]
Text(name, len) == [name |-> name, type |-> "TEXT", len |-> len]
Reserved(n) == [i \in 1..n |-> [name |-> "None", type |-> "None", len |-> 0]]

\* MAPPING[action], the same table for WRITE, READ_REQUEST, READ_RESPONSE and
\* COS, by (functional domain, attribute).
MAPPING ==
  (<<1, 1>> :>
      Reserved(26)
      \o <<Field("away_available", "INTEGER")>>
      \o Reserved(17))
  @@
  (<<2, 1>> :>
      <<Field("mode", "INTEGER_REQUIRED"),
         Field("fan_mode", "INTEGER_REQUIRED"),
         Field("heat_setpoint", "TEMPERATURE_REQUIRED"),
         Field("cool_setpoint", "TEMPERATURE_REQUIRED")>>)
  @@
  (<<2, 3>> :>
      <<Field("dehumidification_setpoint", "HUMIDITY")>>)
  @@
  (<<2, 4>> :>
      <<Field("humidification_setpoint", "HUMIDITY")>>)
  @@
  (<<2, 5>> :>
      <<Field("fresh_air_mode", "INTEGER"),
         Field("fresh_air_event", "INTEGER")>>)
  @@
  (<<2, 6>> :>
      <<Field("air_cleaning_mode", "INTEGER"),
         Field("air_cleaning_event", "INTEGER")>>)
  @@
  (<<2, 7>> :>
      <<Field("thermostat_modes", "INTEGER"),
         Field("air_cleaning_available", "INTEGER"),
         Field("ventilation_available", "INTEGER"),
         Field("dehumidification_available", "INTEGER"),
         Field("humidification_available", "INTEGER")>>)
  @@
  (<<3, 4>> :>
      <<Field("hold", "INTEGER")>>
      \o Reserved(9))
  @@
  (<<5, 1>> :>
      <<Field("built_in_temperature_sensor_status", "INTEGER"),
         Field("built_in_temperature_sensor_value", "TEMPERATURE"),
         Field("wired_remote_temperature_sensor_status", "INTEGER"),
         Field("wired_remote_temperature_sensor_value", "TEMPERATURE"),
         Field("wired_outdoor_temperature_sensor_status", "INTEGER"),
         Field("wired_outdoor_temperature_sensor_value", "TEMPERATURE"),
         Field("built_in_humidity_sensor_status", "INTEGER"),
         Field("built_in_humidity_sensor_value", "HUMIDITY"),
         Field("rat_sensor_status", "INTEGER"),
         Field("rat_sensor_value", "TEMPERATURE"),
         Field("lat_sensor_status", "INTEGER"),
         Field("lat_sensor_value", "TEMPERATURE"),
         Field("wireless_outdoor_temperature_sensor_status", "INTEGER"),
         Field("wireless_outdoor_temperature_sensor_value", "TEMPERATURE"),
         Field("wireless_outdoor_humidity_sensor_status", "INTEGER"),
         Field("wireless_outdoor_humidity_sensor_value", "HUMIDITY")>>)
  @@
  (<<5, 2>> :>
      <<Field("indoor_temperature_controlling_sensor_status", "INTEGER"),
         Field("indoor_temperature_controlling_sensor_value", "TEMPERATURE"),
         Field("outdoor_temperature_controlling_sensor_status", "INTEGER"),
         Field("outdoor_temperature_controlling_sensor_value", "TEMPERATURE"),
         Field("indoor_humidity_controlling_sensor_status", "INTEGER"),
         Field("indoor_humidity_controlling_sensor_value", "HUMIDITY"),
         Field("outdoor_humidity_controlling_sensor_status", "INTEGER"),
         Field("outdoor_humidity_controlling_sensor_value", "HUMIDITY")>>)
  @@
  (<<7, 2>> :>
      <<Field("synced", "INTEGER")>>)
  @@
  (<<7, 6>> :>
      <<Field("heating_equipment_status", "INTEGER"),
         Field("cooling_equipment_status", "INTEGER"),
         Field("progressive_recovery", "INTEGER"),
         Field("fan_status", "INTEGER")>>)
  @@
  (<<7, 7>> :>
      <<Field("dehumidification_status", "INTEGER"),
         Field("humidification_status", "INTEGER"),
         Field("ventilation_status", "INTEGER"),
         Field("air_cleaning_status", "INTEGER")>>)
  @@
  (<<7, 8>> :>
      <<Field("error", "INTEGER")>>)
  @@
  (<<8, 1>> :>
      <<Field("hardware_revision", "INTEGER"),
         Field("firmware_major_revision", "INTEGER"),
         Field("firmware_minor_revision", "INTEGER"),
         Field("protocol_major_revision", "INTEGER"),
         Field("model_number", "INTEGER"),
         Field("gainspan_firmware_major_revision", "INTEGER"),
         Field("gainspan_firmware_minor_revision", "INTEGER")>>)
  @@
  (<<8, 2>> :>
      <<Field("mac_address", "MAC_ADDRESS")>>)
  @@
  (<<8, 4>> :>
      <<Text("location", 7),
         Text("name", 15)>>)
  @@
  (<<8, 5>> :>
      <<Text("location", 7),
         Text("name", 15)>>)

\* The actions MAPPING has a table for.
MappedActions == {Action.WRITE, Action.READ_REQUEST, Action.READ_RESPONSE, Action.COS}

\* Packet._encode_temperature of a number (in halves): floor(abs(t)), 64 for
\* a fraction of a half or more, 128 for a negative value.
_encode_temperature_FractionBit(h) ==
  (IF h < 0 THEN 0 - h ELSE h) \div 2
  + (IF h % 2 = 1 THEN 32 ELSE 0)
  + (IF h < 0 THEN 128 ELSE 0)

_encode_temperature(h) ==
  (IF h < 0 THEN 0 - h ELSE h) \div 2
  + (IF h % 2 = 1 THEN 64 ELSE 0)
  + (IF h < 0 THEN 128 ELSE 0)

\* Packet._decode_temperature of a raw value, in halves: raw & 63, then bit 6
\* for the half and bit 7 for the sign.
_decode_temperature(raw_value) ==
  LET temperature_value == 2 * (raw_value % 64)
      has_fraction == (raw_value \div 64) % 2 = 1
      is_positive == (raw_value \div 128) % 2 = 0
      t == IF has_fraction THEN temperature_value + 1 ELSE temperature_value
  IN IF is_positive THEN t ELSE 0 - t

\* A bound of 100 taken for valid.
_decode_humidity_Inclusive(raw_value) ==
  IF raw_value <= 0 \/ raw_value > 100 THEN PyNone ELSE PyInt(raw_value)

\* Packet._decode_humidity
_decode_humidity(raw_value) ==
  IF raw_value <= 0 \/ raw_value >= 100 THEN PyNone ELSE PyInt(raw_value)

\* The two bytes the other way round.
_encode_int_value_LowFirst(value) == <<value % 256, (value \div 256) % 256>>

\* Packet._encode_int_value
_encode_int_value(value) == <<(value \div 256) % 256, value % 256>>

\* A Packet of the codec: the fields parse fills and serialize reads.  data
\* is the dict of the field values by name; nack_attribute is -1 for a packet
\* that is no NackPacket; revision has its default.
CodecPacket(action, functional_domain, attribute, seq, data) ==
  [action |-> action, functional_domain |-> functional_domain,
   attribute |-> attribute, revision |-> 1, sequence |-> seq, data |-> data,
   raw_data |-> PyNone, nack_attribute |-> -1]

\* class NackPacket
NackPacket(nack_attribute) ==
  [action |-> Action.NACK, functional_domain |-> 16, attribute |-> 0,
   revision |-> 1, sequence |-> 0, data |-> <<>>, raw_data |-> PyNone,
   nack_attribute |-> nack_attribute]

\* self.data.get(name)
Get(data, name) == IF name \in DOMAIN data THEN data[name] ELSE PyNone

\* packet.data[name] = value
Set(data, name, value) ==
  [k \in DOMAIN data \cup {name} |-> IF k = name THEN value ELSE data[k]]

\* What is no integer stands in a list of bytes-to-be as -1: bytes() raises
\* on it, as it does on an integer outside 0..255.
AsByte(v) == IF IsInt(v) THEN v[2] \div 2 ELSE -1

\* The elements one schema entry adds to the payload in serialize.
FieldBytes(f, data_value) ==
  IF f.type \in {"INTEGER", "INTEGER_REQUIRED", "HUMIDITY"}
  THEN <<AsByte(data_value)>>
  ELSE IF f.type \in {"TEMPERATURE", "TEMPERATURE_REQUIRED"}
  THEN <<IF IsNum(data_value) THEN _encode_temperature(data_value[2]) ELSE -1>>
  ELSE IF f.type = "MAC_ADDRESS"
  THEN IF IsList(data_value) THEN Items(data_value)
       ELSE IF IsStr(data_value) THEN [i \in 1..Len(Items(data_value)) |-> -1]
       ELSE <<-1>>
  ELSE IF f.type = "TEXT"
  THEN IF IsStr(data_value) \/ IsList(data_value)
       THEN [i \in 1..(f.len + 1) |->
               IF i > Len(Items(data_value)) THEN 0
               ELSE IF IsStr(data_value) THEN Items(data_value)[i] ELSE -1]
       ELSE <<-1>>
  ELSE <<0>>

RECURSIVE FieldsBytes(_, _, _)
FieldsBytes(fields, i, data) ==
  IF i > Len(fields) THEN <<>>
  ELSE FieldBytes(fields[i], Get(data, fields[i].name)) \o FieldsBytes(fields, i + 1, data)

\* serialize that goes by the schema although the packet has raw_data.
serialize_NoOverride(m) ==
  LET key == <<m.functional_domain, m.attribute>>
      fielded == m.action \in {Action.WRITE, Action.READ_RESPONSE, Action.COS}
      unmapped == m.nack_attribute = -1 /\ fielded /\ key \notin DOMAIN MAPPING
      payload ==
        IF m.nack_attribute # -1 THEN <<Action.NACK, m.nack_attribute>>
        ELSE <<m.action, m.functional_domain, m.attribute>>
             \o (IF fielded /\ ~unmapped THEN FieldsBytes(MAPPING[key], 1, m.data)
                 ELSE <<>>)
      result == <<1, m.sequence>> \o _encode_int_value(Len(payload)) \o payload
      raised == unmapped \/ \E i \in 1..Len(result) : result[i] \notin 0..255
  IN [raised |-> raised,
      bytes |-> IF raised THEN <<>> ELSE Append(result, _generate_crc(result))]

\* Packet.serialize: the bytes, or raised when an exception ends the call
\* (a key MAPPING has not, a value that is no byte).
serialize(m) ==
  LET key == <<m.functional_domain, m.attribute>>
      fielded == m.action \in {Action.WRITE, Action.READ_RESPONSE, Action.COS}
      unmapped == m.nack_attribute = -1 /\ m.raw_data = PyNone /\ fielded
                  /\ key \notin DOMAIN MAPPING
      payload ==
        IF m.nack_attribute # -1 THEN <<Action.NACK, m.nack_attribute>>
        ELSE <<m.action, m.functional_domain, m.attribute>>
             \o (IF m.raw_data # PyNone THEN Items(m.raw_data)
                 ELSE IF fielded /\ ~unmapped THEN FieldsBytes(MAPPING[key], 1, m.data)
                 ELSE <<>>)
      result == <<1, m.sequence>> \o _encode_int_value(Len(payload)) \o payload
      raised == unmapped \/ \E i \in 1..Len(result) : result[i] \notin 0..255
  IN [raised |-> raised,
      bytes |-> IF raised THEN <<>> ELSE Append(result, _generate_crc(result))]

\* f"{n:x}": the lowercase hexadecimal digits of n, without padding.
HexDigit(d) == IF d < 10 THEN 48 + d ELSE 87 + d
RECURSIVE Hex(_)
Hex(n) == IF n < 16 THEN <<HexDigit(n)>> ELSE Append(Hex(n \div 16), HexDigit(n % 16))

\* ":".join(components)
RECURSIVE Join(_)
Join(components) ==
  IF components = <<>> THEN <<>>
  ELSE IF Len(components) = 1 THEN components[1]
  ELSE components[1] \o <<58>> \o Join(Tail(components))

\* text.strip(" ")
RECURSIVE Strip(_)
Strip(text) ==
  IF text = <<>> THEN <<>>
  ELSE IF text[1] = 32 THEN Strip(Tail(text))
  ELSE IF text[Len(text)] = 32 THEN Strip(SubSeq(text, 1, Len(text) - 1))
  ELSE text

\* data[i] of Python, indices from 0.
At(data, i) == data[i + 1]

\* The loop over the payload of one frame in Packet.parse: from data_index,
\* while data_index <= final_index, with attribute_index into the schema
\* entries.  raised stands for the IndexError of reading past the buffer.
RECURSIVE ParseFields(_, _, _, _, _, _)
ParseFields(data, data_index, final_index, fields, attribute_index, acc) ==
  IF data_index > final_index
  THEN [data_index |-> data_index, data |-> acc, raised |-> FALSE]
  ELSE IF attribute_index >= Len(fields)
  THEN \* one byte is passed over per turn until data_index > final_index
       [data_index |-> final_index + 1, data |-> acc, raised |-> FALSE]
  ELSE
    LET f == fields[attribute_index + 1]
        Stop == [data_index |-> data_index, data |-> acc, raised |-> TRUE]
        Go(n, d) == ParseFields(data, data_index + n, final_index, fields,
                                attribute_index + 1, d)
    IN IF f.type = "None" THEN Go(1, acc)
       ELSE IF data_index >= Len(data) THEN Stop
       ELSE
         LET data_value == At(data, data_index)
         IN CASE f.type = "INTEGER" -> Go(1, Set(acc, f.name, PyInt(data_value)))
            [] f.type = "INTEGER_REQUIRED" ->
                 Go(1, IF data_value # 0 THEN Set(acc, f.name, PyInt(data_value)) ELSE acc)
            [] f.type = "HUMIDITY" -> Go(1, Set(acc, f.name, _decode_humidity(data_value)))
            [] f.type = "TEMPERATURE" ->
                 Go(1, Set(acc, f.name, Num(_decode_temperature(data_value))))
            [] f.type = "TEMPERATURE_REQUIRED" ->
                 Go(1, IF data_value # 0
                       THEN Set(acc, f.name, Num(_decode_temperature(data_value)))
                       ELSE acc)
            [] f.type = "MAC_ADDRESS" ->
                 IF data_index + 6 > Len(data) THEN Stop
                 ELSE Go(6, Set(acc, f.name,
                                Str(Join([i \in 1..6 |-> Hex(At(data, data_index + i - 1))]))))
            [] f.type = "TEXT" ->
                 IF data_index + f.len > Len(data) THEN Stop
                 ELSE Go(f.len + 1,
                         Set(acc, f.name,
                             Str(Strip([i \in 1..f.len |->
                                          IF At(data, data_index + i - 1) = 0 THEN 32
                                          ELSE At(data, data_index + i - 1)]))))

\* The frame is skipped for its action or its functional domain: the
\* try/except around Action(action) and FunctionalDomain(functional_domain).
NotEnumerated(action, functional_domain) ==
  action \notin Actions \/ functional_domain \notin FunctionalDomains

\* The length parse reads in the frame at data_index:
\* data[data_index + 2] << 2 | data[data_index + 3].
CountAt(data, data_index) ==
  Or(At(data, data_index + 2) * 4, At(data, data_index + 3))

\* Packet.parse from data_index on; out is what was yielded so far, raised
\* the IndexError that ends the generator.
RECURSIVE ParseFrom(_, _, _)
ParseFrom(data, data_index, out) ==
  IF data_index >= Len(data) THEN [out |-> out, raised |-> FALSE]
  ELSE IF data_index + 6 >= Len(data) THEN [out |-> out, raised |-> TRUE]
  ELSE
    LET seq == At(data, data_index + 1)
        count == CountAt(data, data_index)
        action == At(data, data_index + 4)
        functional_domain == At(data, data_index + 5)
        attribute == At(data, data_index + 6)
        key == <<functional_domain, attribute>>
    IN IF NotEnumerated(action, functional_domain)
       THEN ParseFrom(data, data_index + count + 5, out)
       ELSE IF action = Action.NACK
       THEN ParseFrom(data, data_index + count + 5,
                      Append(out, NackPacket(At(data, data_index + 5))))
       ELSE IF action \notin MappedActions \/ key \notin DOMAIN MAPPING
       THEN ParseFrom(data, data_index + count + 5, out)
       ELSE
         LET r == ParseFields(data, data_index + 7, data_index + count + 3,
                              MAPPING[key], 0, <<>>)
             packet == [CodecPacket(action, functional_domain, attribute, seq, r.data)
                          EXCEPT !.revision = At(data, data_index)]
         IN IF r.raised \/ r.data_index >= Len(data)
            THEN [out |-> out, raised |-> TRUE]
            ELSE ParseFrom(data, r.data_index + 1,
                           IF _verify_crc(SubSeq(data, data_index + 1, r.data_index),
                                          At(data, r.data_index))
                           THEN Append(out, packet) ELSE out)

\* Packet.parse
parse(data) == ParseFrom(data, 0, <<>>)

\* ------------------------------------------------------ codec: the calls
\* The values a caller puts into a field, each within the range of its type:
\* a byte; a temperature in halves of a degree up to 63.5 either way; a
\* humidity of 1..99; the six bytes of a MAC address, as the list serialize
\* takes; a text no longer than the field.
IntValues == <<PyInt(0), PyInt(1), PyInt(255)>>
TemperatureValues == <<Num(0), Num(42), Num(-53), Num(127), Num(-1)>>
HumidityValues == <<PyInt(1), PyInt(50), PyInt(99)>>
MacValues == <<List(<<1, 2, 3, 171, 5, 6>>), List(<<0, 16, 255, 10, 9, 15>>)>>
TextValues(len) ==
  <<Str(<<72, 111, 109, 101>>), Str([i \in 1..len |-> 96 + i]), Str(<<72, 32, 105>>)>>

ValuesOf(f) ==
  CASE f.type \in {"INTEGER", "INTEGER_REQUIRED"} -> IntValues
    [] f.type \in {"TEMPERATURE", "TEMPERATURE_REQUIRED"} -> TemperatureValues
    [] f.type = "HUMIDITY" -> HumidityValues
    [] f.type = "MAC_ADDRESS" -> MacValues
    [] f.type = "TEXT" -> TextValues(f.len)

\* The k-th choice of values for the fields of a schema entry.
Variants == 0..4
Populated(fields, k) ==
  LET named == {i \in 1..Len(fields) : fields[i].type # "None"}
  IN [name \in {fields[i].name : i \in named} |->
        LET i == CHOOSE j \in named : fields[j].name = name
        IN ValuesOf(fields[i])[((k + i) % Len(ValuesOf(fields[i]))) + 1]]

\* The messages a caller serializes: every entry of the schema with all its
\* fields, under the actions that carry fields; and every NackPacket.
Messages ==
  {CodecPacket(a, key[1], key[2], 1, Populated(MAPPING[key], k)) :
     a \in {Action.WRITE, Action.READ_RESPONSE, Action.COS},
     key \in DOMAIN MAPPING, k \in Variants}
  \cup {NackPacket(a) : a \in 0..255}

\* What tells one parsed packet from another: action, functional domain and
\* attribute, or for a NackPacket its nack_attribute.
KeyOfPacket(m) ==
  IF m.nack_attribute # -1 THEN <<Action.NACK, m.nack_attribute, 0>>
  ELSE <<m.action, m.functional_domain, m.attribute>>

\* The flags configure_cos sends as raw_data.
ConfigureCosFlags ==
  <<1, 0, 0, 0, 0, 1, 1, 1, 1, 1, 1, 0, 1, 0, 1, 0, 0, 0, 0, 0, 1, 0, 1, 0,
    1, 1, 1, 0, 0>>

\* Packet(action, functional_domain, attribute, raw_data=raw_data)
RawPacket(action, functional_domain, attribute, raw_data) ==
  [CodecPacket(action, functional_domain, attribute, 0, <<>>)
     EXCEPT !.raw_data = List(raw_data)]

\* The packets the methods of _AprilaireClientProtocol build, as they build
\* them: the read requests, the writes with the values of their callers (a
\* mode, a fan mode, setpoints in halves of a degree, a hold, humidity
\* setpoints, modes and events), sync and configure_cos.
ClientPackets ==
  {CodecPacket(Action.READ_REQUEST, k[1], k[2], 0, <<>>) :
     k \in {<<5, 2>>, <<2, 1>>, <<3, 4>>, <<8, 2>>, <<2, 7>>, <<8, 5>>,
            <<2, 3>>, <<2, 4>>}}
  \cup {CodecPacket(Action.WRITE, 2, 1, 0,
                    [mode |-> PyInt(v), fan_mode |-> PyInt(0),
                     heat_setpoint |-> PyInt(0), cool_setpoint |-> PyInt(0)]) :
          v \in {1, 5}}
  \cup {CodecPacket(Action.WRITE, 2, 1, 0,
                    [mode |-> PyInt(0), fan_mode |-> PyInt(v),
                     heat_setpoint |-> PyInt(0), cool_setpoint |-> PyInt(0)]) :
          v \in {1, 3}}
  \cup {CodecPacket(Action.WRITE, 2, 1, 0,
                    [mode |-> PyInt(0), fan_mode |-> PyInt(0),
                     heat_setpoint |-> Num(h), cool_setpoint |-> Num(c)]) :
          h \in {40, 41}, c \in {48, 51}}
  \cup {CodecPacket(Action.WRITE, 3, 4, 0, [hold |-> PyInt(v)]) : v \in 0..2}
  \cup {CodecPacket(Action.WRITE, 2, 3, 0,
                    [dehumidification_setpoint |-> PyInt(v)]) : v \in {40, 60}}
  \cup {CodecPacket(Action.WRITE, 2, 4, 0,
                    [humidification_setpoint |-> PyInt(v)]) : v \in {20, 35}}
  \cup {CodecPacket(Action.WRITE, 2, 5, 0,
                    [fresh_air_mode |-> PyInt(v), fresh_air_event |-> PyInt(e)]) :
          v \in {0, 1}, e \in {0, 3}}
  \cup {CodecPacket(Action.WRITE, 2, 6, 0,
                    [air_cleaning_mode |-> PyInt(v),
                     air_cleaning_event |-> PyInt(e)]) :
          v \in {0, 2}, e \in {0, 4}}
  \cup {CodecPacket(Action.WRITE, 7, 2, 0, [synced |-> PyInt(1)])}
  \cup {RawPacket(Action.WRITE, 7, 1, ConfigureCosFlags)}

\* Message m without its field `name`.
Lacking(m, name) ==
  [m EXCEPT !.data = [n \in DOMAIN m.data \ {name} |-> m.data[n]]]

\* The messages that are serialized for the wire: the client's packets with
\* the sequence _send_packet gives them, built with the default revision or
\* with another; messages with a raw override; and messages of the schema
\* built without one of their fields.
Outbound ==
  {[m EXCEPT !.sequence = seq, !.revision = rev] :
     m \in ClientPackets, seq \in {1, 127}, rev \in {1, 2}}
  \cup {[RawPacket(Action.READ_REQUEST, 2, 1, <<1, 2, 3>>) EXCEPT !.sequence = 1]}
  \cup {Lacking(m, name) :
          m \in {x \in Messages : x.nack_attribute = -1 /\ x.functional_domain = 2},
          name \in {"mode", "fan_mode", "heat_setpoint", "cool_setpoint",
                    "fresh_air_event"}}

\* A frame and where it comes from: the message serialize made it from (made
\* "serialize"), or the payload the peer framed (made "peer"); expect is the
\* key of the message a known frame with a matching CRC stands for.
NoPacket == CodecPacket(Action.NONE, 0, 0, 0, <<>>)
FrameRec(bytes, msg, made, expect) ==
  [bytes |-> bytes, msg |-> msg, made |-> made, expect |-> expect]

\* A frame of the peer: revision 1, sequence, the length of the payload in
\* two bytes, the payload, and the CRC of all that or, for a damaged frame,
\* another byte.
PeerFrame(seq, payload, good, expect) ==
  LET body == <<1, seq, 0, Len(payload)>> \o payload
      crc == _generate_crc(body)
  IN FrameRec(Append(body, IF good THEN crc ELSE Xor(crc, 1)), NoPacket, "peer",
              IF good THEN expect ELSE <<>>)

\* The frames the peer sends: of an action that is none, of a functional
\* domain that is none, of an attribute the schema has not; known frames
\* with a good and with a bad CRC; a read request; negative acknowledgements;
\* a known frame whose payload ends inside its field.
PeerFrames ==
  {PeerFrame(2, <<4, 2, 1, 7>>, TRUE, <<>>),
   PeerFrame(3, <<3, 11, 1, 7>>, TRUE, <<>>),
   PeerFrame(4, <<3, 2, 2, 7, 8>>, TRUE, <<>>),
   PeerFrame(5, <<3, 2, 1, 1, 2, 20, 25>>, TRUE, <<<<3, 2, 1>>>>),
   PeerFrame(5, <<3, 2, 1, 1, 2, 20, 25>>, FALSE, <<>>),
   PeerFrame(6, <<5, 5, 2, 0, 21, 0, 149, 0, 45, 0, 50>>, TRUE, <<<<5, 5, 2>>>>),
   PeerFrame(7, <<2, 2, 1>>, TRUE, <<<<2, 2, 1>>>>),
   PeerFrame(8, <<3, 3, 4, 1, 0, 0, 0, 0, 0, 0, 0, 0, 0, 9, 9>>, TRUE, <<<<3, 3, 4>>>>),
   PeerFrame(9, <<6, 1>>, TRUE, <<<<6, 1, 0>>>>),
   PeerFrame(9, <<6, 1>>, FALSE, <<>>),
   PeerFrame(10, <<6, 11>>, TRUE, <<<<6, 11, 0>>>>),
   PeerFrame(11, <<3, 8, 2, 9>>, TRUE, <<<<3, 8, 2>>>>)}

\* The bytes a damaged byte may have become.
Damaged(b) == {(b + 1) % 256, Xor(b, 255), Action.NACK} \ {b}

Call(f, arg, result, raised) == [f |-> f, arg |-> arg, result |-> result, raised |-> raised]

\* A caller serializes message m.
Serialize(m) ==
  /\ origin.frames = <<>>
  /\ LET r == serialize(m)
     IN /\ calc' = Call("serialize", m, List(r.bytes), r.raised)
        /\ IF r.raised THEN UNCHANGED <<wire, origin>>
           ELSE /\ wire' = r.bytes
                /\ origin' = [frames |-> <<FrameRec(r.bytes, m, "serialize",
                                                    <<KeyOfPacket(m)>>)>>,
                              touched |-> "-"]
  /\ last' = [op |-> "serialize", kind |-> "-"]
  /\ UNCHANGED <<parsed, fault>>
  /\ UNCHANGED <<supState, sessVars, clientVars>>

\* The peer sends frame f after the frames it has sent.
PeerSends(f) ==
  /\ Len(origin.frames) < MaxFrames
  /\ origin.touched = "-" /\ ~parsed.done
  /\ \A i \in 1..Len(origin.frames) : origin.frames[i].made = "peer"
  /\ wire' = wire \o f.bytes
  /\ origin' = [origin EXCEPT !.frames = Append(@, f)]
  /\ last' = [op |-> "peer_sends", kind |-> "-"]
  /\ UNCHANGED <<parsed, calc, fault>>
  /\ UNCHANGED <<supState, sessVars, clientVars>>

\* Byte i of the one valid frame at hand arrives as b.
Damage(i, b) ==
  /\ Len(origin.frames) = 1 /\ origin.frames[1].expect # <<>>
  /\ origin.touched = "-" /\ ~parsed.done
  /\ i \in 1..Len(wire) /\ b \in Damaged(wire[i])
  /\ wire' = [wire EXCEPT ![i] = b]
  /\ origin' = [origin EXCEPT !.touched = "damaged"]
  /\ last' = [op |-> "damage", kind |-> "-"]
  /\ UNCHANGED <<parsed, calc, fault>>
  /\ UNCHANGED <<supState, sessVars, clientVars>>

\* Only the first n bytes of the frames at hand arrive.
Truncate(n) ==
  /\ origin.frames # <<>>
  /\ origin.touched = "-" /\ ~parsed.done
  /\ n \in 1..(Len(wire) - 1)
  /\ wire' = SubSeq(wire, 1, n)
  /\ origin' = [origin EXCEPT !.touched = "truncated"]
  /\ last' = [op |-> "truncate", kind |-> "-"]
  /\ UNCHANGED <<parsed, calc, fault>>
  /\ UNCHANGED <<supState, sessVars, clientVars>>

\* Packet.parse of the bytes at hand, run to its end.
Parse ==
  /\ origin.frames # <<>> /\ ~parsed.done
  /\ LET r == parse(wire)
     IN parsed' = [done |-> TRUE, out |-> r.out, raised |-> r.raised]
  /\ last' = [op |-> "parse", kind |-> "-"]
  /\ UNCHANGED <<wire, origin, calc, fault>>
  /\ UNCHANGED <<supState, sessVars, clientVars>>

\* Packet._encode_temperature(t) for t given in halves.
EncodeTemperature(h) ==
  /\ calc' = Call("_encode_temperature", Num(h), PyInt(_encode_temperature(h)), FALSE)
  /\ last' = [op |-> "_encode_temperature", kind |-> "-"]
  /\ UNCHANGED <<wire, origin, parsed, fault>>
  /\ UNCHANGED <<supState, sessVars, clientVars>>

\* Packet._decode_temperature(raw_value)
DecodeTemperature(raw_value) ==
  /\ calc' = Call("_decode_temperature", PyInt(raw_value),
                  Num(_decode_temperature(raw_value)), FALSE)
  /\ last' = [op |-> "_decode_temperature", kind |-> "-"]
  /\ UNCHANGED <<wire, origin, parsed, fault>>
  /\ UNCHANGED <<supState, sessVars, clientVars>>

\* Packet._decode_humidity(raw_value)
DecodeHumidity(raw_value) ==
  /\ calc' = Call("_decode_humidity", PyInt(raw_value), _decode_humidity(raw_value), FALSE)
  /\ last' = [op |-> "_decode_humidity", kind |-> "-"]
  /\ UNCHANGED <<wire, origin, parsed, fault>>
  /\ UNCHANGED <<supState, sessVars, clientVars>>

\* ---------------------------------------------------------- specifications
\* A session whose supervisor was built without intervals: the session reads
\* neither of them.
InitS == Init /\ reconnect_interval = 0 /\ retry_connection_interval = 0

\* The outbound queue of a session and its callers.
NextQ ==
  \/ ReadControl
  \/ \E h \in Holds : SetHold(h)
  \/ QueueLoop
  \/ SessionConnectionMade
  \/ \E c \in 1..MaxConns : SessionConnectionLost(c)

SpecQ == InitS /\ [][NextQ]_vars

\* A _queue_loop task that exists is run by the event loop: each round ends
\* in asyncio.sleep(QUEUE_FREQUENCY), after which the task is scheduled again.
FairSpecQ == SpecQ /\ WF_vars(QueueLoop)

\* The life of a session: its connections, what each of them starts and what
\* the end of each of them schedules.
NextB ==
  \/ ReadControl
  \/ QueueLoop
  \/ SessionConnectionMade
  \/ \E c \in 1..MaxConns : SessionConnectionLost(c)
  \/ UpdateStatus
  \/ RunDataReceived
  \/ RunReconnectAction

SpecB == InitS /\ [][NextB]_vars

\* The event loop ends the sleep of _update_status: weak fairness of
\* UpdateStatus, WF_vars(UpdateStatus), with its enabling condition written
\* out as update_status > 0.
FairSpecB ==
  SpecB /\ ([]<>(update_status = 0) \/ []<><<last'.op = "_update_status">>_vars)

\* The inbound side of a session: what is received, the tasks that dispatch
\* it, and callers that wait for responses without a timeout.
NextR ==
  \/ SessionConnectionMade
  \/ \E buf \in Buffers : DataReceived(buf)
  \/ RunDataReceived
  \/ RunReRead
  \/ \E k \in Keys : WaitForResponse(k, FALSE)
  \/ \E w \in 1..MaxWaiters, keep \in BOOLEAN : Resume(w, keep)

SpecR == InitS /\ [][NextR]_vars

\* The callers that wait for responses, with or without a timeout.
NextW ==
  \/ SessionConnectionMade
  \/ \E p \in Responses : DataReceived(<<p>>)
  \/ RunDataReceived
  \/ \E k \in Keys, t \in BOOLEAN : WaitForResponse(k, t)
  \/ \E w \in 1..MaxWaiters, now \in BOOLEAN : TimerFires(w, now)
  \/ \E w \in 1..MaxWaiters, keep \in BOOLEAN : Resume(w, keep)

SpecW == InitS /\ [][NextW]_vars

\* The event loop fires a timer that is due and resumes a call that can go
\* on.
FairSpecW ==
  /\ SpecW
  /\ \A w \in 1..MaxWaiters :
       /\ WF_vars(\E now \in BOOLEAN : TimerFires(w, now))
       /\ WF_vars(\E keep \in BOOLEAN : Resume(w, keep))

\* The callers that wait with a timeout while the session ends
\* (connection_lost, stop_listen).
NextT ==
  \/ SessionConnectionMade
  \/ \E c \in 1..MaxConns : SessionConnectionLost(c)
  \/ \E p \in Responses : DataReceived(<<p>>)
  \/ RunDataReceived
  \/ RunReconnectAction
  \/ \E k \in Keys : WaitForResponse(k, TRUE)
  \/ \E w \in 1..MaxWaiters, now \in BOOLEAN : TimerFires(w, now)
  \/ \E w \in 1..MaxWaiters, keep \in BOOLEAN : Resume(w, keep)
  \/ StopListen

SpecT == InitS /\ [][NextT]_vars

\* A long session: a caller that polls the sensors while the session has a
\* transport, and the flush loop.
NextN ==
  \/ sess_transport # 0 /\ ReadSensors
  \/ QueueLoop
  \/ SessionConnectionMade

SpecN == InitS /\ [][NextN]_vars

\* What is sent: the messages of the client, serialized and parsed back.
NextE ==
  \/ \E m \in Outbound : Serialize(m)
  \/ Parse

SpecE == InitS /\ [][NextE]_vars

\* The codec on frames: serialize, what the wire does to the bytes, parse.
NextC ==
  \/ \E m \in Messages : Serialize(m)
  \/ \E f \in PeerFrames : PeerSends(f)
  \/ \E i \in 1..Len(wire) : \E b \in Damaged(wire[i]) : Damage(i, b)
  \/ \E n \in 1..Len(wire) : Truncate(n)
  \/ Parse

SpecC == InitS /\ [][NextC]_vars

\* The codecs of the values.
NextV ==
  \/ \E h \in -127..127 : EncodeTemperature(h)
  \/ \E raw_value \in 0..255 : DecodeTemperature(raw_value)
  \/ \E raw_value \in -5..260 : DecodeHumidity(raw_value)

SpecV == InitS /\ [][NextV]_vars

\* ------------------------------------------------------ derived quantities
\* Calls of create_connection that have not returned yet.
Connecting == Count(task, {x \in TaskStates : x.pc = "connect"})
\* Calls of _reconnect waiting out their connect_wait_period.
Sleeping == Count(task, {x \in TaskStates : x.pc = "sleep"})
\* Calls of _reconnect scheduled with ensure_future that have not run yet.
Starting == Count(task, {x \in TaskStates : x.kind = "reconnect" /\ x.pc = "start"})
\* Liveness loops inside wait_for on a future nobody resolved or cancelled.
Armed == task[TaskRec("loop", "wait", "pending", 0)]
\* Open transports, whichever protocol object they belong to.
OpenSockets == Count(sock, {y \in SockStates : y.st = "open"})
\* connection_lost callbacks scheduled and not run yet.
ClosingSockets == Count(sock, {y \in SockStates : y.st = "closing"})
\* self.protocol.transport is an open transport.
Live == sock[SockRec("open", TRUE, TRUE)] > 0

\* -------------------------------------------------------------- properties

\* C1: once stop_listen has returned and until start_listen is called again,
\* no connect attempt is started and none completes: while the client stays
\* stopped no step opens a connection and none puts a call of
\* create_connection in flight.
C1_NoAttemptWhileStopped ==
  [][(stopped /\ stopped') =>
       (last'.op # "connect_ok" /\ Connecting' <= Connecting)]_vars

\* C2: at most one connect attempt is in flight at a time and the client
\* never holds two open sockets.
C2_OneAttemptOneSocket == Connecting <= 1 /\ OpenSockets <= 1

C4_RetriesNeverCease ==
  /\ [][last'.op = "connect_fail" =>
          task'[TaskRec("reconnect", "start", "-", 10)]
            = task[TaskRec("reconnect", "start", "-", 10)] + 1]_vars
  /\ (~stopped /\ last.op = "connect_fail") ~> (Connecting > 0)
  /\ [][(~stopped /\ stopped') => last'.op = "stop_listen"]_vars

\* A retry has failed in its turn: the next retry is scheduled.
C4_Witness ==
  /\ last.op = "connect_fail" /\ ~stopped /\ ~connected /\ ~reconnecting
  /\ task[TaskRec("reconnect", "start", "-", 10)] > 0
  /\ Count(sock, SockStates) = 0

\* C5: when the liveness timer elapses, the observer is told (the flags are
\* those of a connected client), then the client is reconnecting, its socket
\* is closed and the loop is inside the reconnect; and when the attempt of the
\* loop succeeds with the client not stopped, the client is connected with a
\* live socket and a timer wait is armed.
C5_LivenessReconnect ==
  /\ last.op = "loop_timeout" =>
       /\ notes = << <<TRUE, FALSE, FALSE>>, <<TRUE, FALSE, TRUE>>,
                     <<FALSE, FALSE, TRUE>> >>
       /\ auto_reconnecting /\ reconnecting /\ ~connected /\ ~Live
       /\ task[TaskRec("loop", "sleep", "-", 0)] > 0
  /\ (last.op = "connect_ok" /\ last.kind = "loop" /\ ~stopped) =>
       (connected /\ ~reconnecting /\ Live /\ Armed > 0)

\* The reconnect of the liveness loop has succeeded.
C5_Witness ==
  /\ last.op = "connect_ok" /\ last.kind = "loop"
  /\ ~stopped /\ connected /\ Live /\ Armed > 0

\* C6: after a disconnect or a stop no loop is left waiting on a pending
\* signal and the signal is forgotten; a loop that wakes from a resolved or
\* cancelled signal ends without a notification, a flag change or a reconnect;
\* a loop that starts while the client is stopped or not connected ends
\* without waiting; cancelling without a signal changes no coroutine, a
\* timeout (whose cancel finds the signal already done) leaves no signal, and
\* no fault is ever raised.
C6_CancellableWait ==
  /\ [](last.op \in {"stop_listen", "_disconnect"} =>
          (Armed = 0 /\ reconnect_break_future = "none"))
  /\ [][last'.op = "loop_wake" =>
          /\ Count(task', TaskStates) = Count(task, TaskStates) - 1
          /\ Connecting' = Connecting /\ Sleeping' = Sleeping
          /\ Starting' = Starting
          /\ notes' = <<>> /\ sock' = sock
          /\ <<connected', stopped', reconnecting'>>
               = <<connected, stopped, reconnecting>>]_vars
  /\ [][(last'.op = "loop_start" /\ (stopped \/ ~connected)) =>
          /\ Count(task', TaskStates) = Count(task, TaskStates) - 1
          /\ reconnect_break_future' = reconnect_break_future
          /\ Count(task', {x \in TaskStates : x.pc = "wait"})
               = Count(task, {x \in TaskStates : x.pc = "wait"})]_vars
  /\ [][(last'.op = "_disconnect" /\ reconnect_break_future = "none") =>
          (task' = task /\ reconnect_break_future' = "none")]_vars
  /\ [](last.op = "loop_timeout" => reconnect_break_future = "none")
  /\ [](fault = FALSE)

\* A loop has woken after a direct disconnect, and nothing reconnects.
C6_Witness ==
  /\ last.op = "loop_wake" /\ ~connected /\ ~stopped
  /\ Connecting + Sleeping + Starting = 0
  /\ Count(task, TaskStates) = 0

\* C7: between steps the tuple last delivered to the subscriber is the
\* current (connected, stopped, reconnecting); nothing was delivered only
\* while the flags are those of construction.
C7_NotifiedIsCurrent ==
  /\ notified \in {<<>>, <<connected, stopped, reconnecting>>}
  /\ notified = <<>> => <<connected, stopped, reconnecting>> = <<FALSE, TRUE, FALSE>>

\* The subscriber has been told of a connection.
C7_Witness == last.op = "connect_ok" /\ notified = <<TRUE, FALSE, FALSE>>

\* C8: a connect attempt that succeeds right after start_listen leaves
\* stopped=false, connected=true, reconnecting=false; _disconnect leaves
\* connected=false and stopped, reconnecting as they were; stop_listen leaves
\* stopped=true, connected=false, reconnecting=false.
C8_ClientStatus ==
  /\ [][(last.op = "start_listen" /\ last'.op = "connect_ok") =>
          (~stopped' /\ connected' /\ ~reconnecting')]_vars
  /\ [][last'.op = "_disconnect" =>
          (~connected' /\ stopped' = stopped /\ reconnecting' = reconnecting)]_vars
  /\ [](last.op = "start_listen" => ~stopped)
  /\ [](last.op = "stop_listen" => (stopped /\ ~connected /\ ~reconnecting))

\* _disconnect has been called on a connected client.
C8_Witness ==
  /\ last.op = "_disconnect" /\ ~connected /\ ~stopped /\ ~reconnecting
  /\ sock[SockRec("closing", TRUE, TRUE)] > 0

\* The numbers of the messages of a queue, in queue order, as writes on
\* connection tr.
WritesOf(q, tr) == [i \in 1..Len(q) |-> [conn |-> tr, id |-> q[i].id]]

\* C9: a flush cycle leaves the queue empty and, with a transport, writes
\* every message that was in the queue, once, in queue order.
C9_FlushDrainsAll ==
  [][last'.op = "_queue_loop" =>
       /\ packet_queue' = <<>>
       /\ sess_transport # 0 =>
            written' = written \o WritesOf(packet_queue, sess_transport)]_vars

\* C10: a flush cycle without a transport empties the queue, writes nothing
\* and drops what it removed; a dropped message is never in the queue again
\* and is never among the writes.
C10_DroppedStayDropped ==
  /\ [][(last'.op = "_queue_loop" /\ sess_transport = 0) =>
          /\ packet_queue' = <<>>
          /\ written' = written
          /\ dropped' = dropped \cup {packet_queue[i].id : i \in 1..Len(packet_queue)}]_vars
  /\ [](\A id \in dropped :
          /\ \A i \in 1..Len(packet_queue) : packet_queue[i].id # id
          /\ \A i \in 1..Len(written) : written[i].id # id)

\* A message was dropped between two connections and a later message was
\* written on the second.
C10_Witness ==
  /\ last.op = "_queue_loop" /\ dropped # {}
  /\ sess_transport = 2 /\ Len(written) > 0
  /\ written[Len(written)].conn = 2

\* C11: connection_made leaves the queue empty, and every message written on
\* a connection was queued after that connection was made.
C11_NoStaleWrites ==
  /\ last.op = "connection_made" => packet_queue = <<>>
  /\ \A i \in 1..Len(written) : written[i].id > made_at[written[i].conn]

\* Messages were queued before the latest connection was made, and a message
\* has been written on that connection.
C11_Witness ==
  /\ conns > 0 /\ made_at[conns] > 0
  /\ (conns > 1 => made_at[conns] > made_at[conns - 1])
  /\ Len(written) > 0 /\ written[Len(written)].conn = conns

\* The nine messages of the bootstrap: action, functional domain, attribute.
NineMessages ==
  << <<"READ_REQUEST", "IDENTIFICATION", 2>>, <<"READ_REQUEST", "CONTROL", 7>>,
     <<"READ_REQUEST", "CONTROL", 1>>, <<"READ_REQUEST", "SENSORS", 2>>,
     <<"READ_REQUEST", "IDENTIFICATION", 5>>, <<"WRITE", "STATUS", 1>>,
     <<"READ_REQUEST", "CONTROL", 3>>, <<"READ_REQUEST", "CONTROL", 4>>,
     <<"WRITE", "STATUS", 2>> >>

\* C12: every connection made has one bootstrap, run or still in its settle
\* delay; a bootstrap that runs appends exactly the nine messages to the
\* queue, in order; and a bootstrap in its settle delay eventually runs.
C12_BootstrapPerConnection ==
  /\ [](booted + update_status = conns)
  /\ [][last'.op = "_update_status" =>
          /\ booted' = booted + 1
          /\ Len(packet_queue') = Len(packet_queue) + 9
          /\ SubSeq(packet_queue', 1, Len(packet_queue)) = packet_queue
          /\ \A i \in 1..9 :
               LET m == packet_queue'[Len(packet_queue) + i]
               IN <<m.action, m.functional_domain, m.attribute>> = NineMessages[i]]_vars
  /\ \A n \in 1..MaxConns : (conns = n) ~> (booted >= n)

\* The bootstrap of a second connection has run.
C12_Witness ==
  /\ last.op = "_update_status" /\ conns = 2 /\ booted = 2
  /\ Len(packet_queue) >= 9

\* A ChangeOfState for Control/1 whose mode is 1.
ModeCos(p) ==
  /\ p.action = "COS" /\ p.functional_domain = "CONTROL"
  /\ p.attribute = 1 /\ p.value = 1

\* The places of the tasks of kind t in the tasks that have not run yet.
Scheduled(t) == {i \in 1..Len(ready) : ready[i].t = t}

\* C13: one read_control is scheduled or has queued its ReadRequest for
\* every ChangeOfState Control/1 with mode 1 received and for nothing else,
\* and it queues one ReadRequest Control/1; such a message is never scheduled
\* for delivery, never delivered and never the result of a waiter; every
\* other received message that is no NACK is scheduled for delivery or
\* delivered, once.
C13_ModeReRead ==
  /\ [](Cardinality(Scheduled("read_control")) + sent
          = Cardinality({i \in 1..Len(rx) : ModeCos(rx[i])}))
  /\ [][last'.op = "read_control" =>
          /\ Len(packet_queue') = Len(packet_queue) + 1
          /\ SubSeq(packet_queue', 1, Len(packet_queue)) = packet_queue
          /\ LET m == packet_queue'[Len(packet_queue')]
             IN <<m.action, m.functional_domain, m.attribute>>
                  = <<"READ_REQUEST", "CONTROL", 1>>]_vars
  /\ [](\A i \in Scheduled("data_received") : ~ModeCos(ready[i].p))
  /\ [](\A i \in 1..Len(delivered) : ~ModeCos(delivered[i].p))
  /\ [](\A w \in 1..Len(waiter) :
          waiter[w].fut = "result" => ~ModeCos(rx[waiter[w].data]))
  /\ [](\A i \in 1..Len(rx) :
          (rx[i].action # "NACK" /\ ~ModeCos(rx[i])) =>
            Cardinality({j \in Scheduled("data_received") :
                           ready[j].n = i /\ ready[j].p = rx[i]})
            + Cardinality({j \in 1..Len(delivered) :
                             delivered[j].n = i /\ delivered[j].p = rx[i]}) = 1)

\* A ChangeOfState Control/1 with mode 1 was received while a caller waited
\* for Control/1; its re-read has been queued and the caller still waits.
C13_Witness ==
  /\ last.op = "read_control" /\ sent = 1 /\ ready = <<>>
  /\ \E i \in 1..Len(rx) : ModeCos(rx[i])
  /\ \E w \in 1..Len(waiter) :
       waiter[w].key = <<"CONTROL", 1>> /\ waiter[w].fut = "pending"
  /\ delivered = <<>>

\* C14: a negative acknowledgement is never scheduled for delivery, never
\* delivered and never the result of a waiter; and a call of data_received
\* schedules one task for every packet of its buffer that is no NACK, those
\* after a NACK included.
C14_NackDiscarded ==
  /\ [](\A i \in 1..Len(ready) : ready[i].p.action # "NACK")
  /\ [](\A i \in 1..Len(delivered) : delivered[i].p.action # "NACK")
  /\ [](\A w \in 1..Len(waiter) :
          waiter[w].fut = "result" => rx[waiter[w].data].action # "NACK")
  /\ [][last'.op = "data_received" =>
          Len(ready') = Len(ready)
            + Cardinality({i \in (Len(rx) + 1)..Len(rx') : rx'[i].action # "NACK"})]_vars

\* The packet received right after a NACK has been delivered.
C14_Witness ==
  /\ last.op = "deliver" /\ Len(rx) = 2 /\ rx[1].action = "NACK"
  /\ delivered = <<[n |-> 2, p |-> rx[2]]>>

\* The connections of the session that were lost.
Losses == conns - Cardinality(open_conns)

\* The (NONE, 0, {available: False}) notifications the subscriber was given.
UnavailableDelivered ==
  Cardinality({i \in 1..Len(delivered) :
                 delivered[i].p.functional_domain = "NONE" /\ delivered[i].p.attribute = 0})

\* C15: for every connection lost there is one (NONE, 0, {available: False})
\* notification, delivered or scheduled, and one reconnect request, made or
\* scheduled; no reconnect request is made before the notification of the
\* same loss is delivered; connection_lost leaves the session without a
\* transport, and a flush without a transport writes nothing.
C15_ConnectionLost ==
  /\ [](UnavailableDelivered
          + Cardinality({i \in Scheduled("data_received") : ready[i].p = Unavailable})
          = Losses)
  /\ [](requests + Cardinality(Scheduled("reconnect_action")) = Losses)
  /\ [](requests <= UnavailableDelivered)
  /\ [](last.op = "connection_lost" => sess_transport = 0)
  /\ [][(sess_transport = 0 /\ last'.op = "_queue_loop") => written' = written]_vars

\* Two connections were lost: both notifications were delivered and both
\* reconnect requests made.
C15_Witness ==
  /\ last.op = "reconnect_action" /\ Losses = 2
  /\ UnavailableDelivered = 2 /\ requests = 2

\* C16: what the subscriber was given is, in the order it was given, a
\* subsequence of the packets in the order they were decoded: each delivery is
\* the packet of its number, and the numbers increase.
C16_DeliveryOrder ==
  /\ \A i \in 1..Len(delivered) :
       delivered[i].n \in 1..Len(rx) /\ delivered[i].p = rx[delivered[i].n]
  /\ \A i, j \in 1..Len(delivered) : i < j => delivered[i].n < delivered[j].n
  /\ \A i \in 1..Len(delivered), j \in Scheduled("data_received") :
       delivered[i].n < ready[j].n

\* Both packets of the data received were delivered, one after the other.
C16_Witness ==
  /\ last.op = "deliver" /\ Len(rx) = 2 /\ ready = <<>>
  /\ delivered = <<[n |-> 1, p |-> rx[1]], [n |-> 2, p |-> rx[2]]>>
  /\ rx[1] # rx[2]

\* The key of a packet in the table of waiters.
KeyOf(p) == <<p.functional_domain, p.attribute>>

\* The waiters registered under key k.
Registered(k) == IF k \in DOMAIN futures THEN futures[k] ELSE <<>>

\* C17: the delivery of a packet with a domain and an attribute resolves
\* every pending waiter registered under its key with that packet, removes
\* the key from the table, and leaves the lists and the waiters of the other
\* keys as they were; a resolved waiter holds a packet of its key.
C17_Step ==
  (last'.op = "deliver" /\ ready # <<>> /\ Head(ready).p.functional_domain # "NONE"
     /\ Head(ready).p.attribute # 0)
  => LET k == KeyOf(Head(ready).p)
         ws == Registered(k)
     IN /\ \A i \in 1..Len(ws) :
             waiter[ws[i]].fut = "pending"
             => /\ waiter'[ws[i]].fut = "result"
                /\ waiter'[ws[i]].data = Head(ready).n
                /\ rx[Head(ready).n] = Head(ready).p
        /\ k \notin DOMAIN futures'
        /\ \A k2 \in DOMAIN futures \ {k} :
             k2 \in DOMAIN futures' /\ futures'[k2] = futures[k2]
        /\ \A w \in 1..Len(waiter) : waiter[w].key # k => waiter'[w] = waiter[w]

C17_Waiters == [][C17_Step]_vars

\* One delivery has resolved two waiters of one key with the same packet.
C17_Witness ==
  /\ last.op = "deliver" /\ Len(waiter) = 2
  /\ waiter[1].key = waiter[2].key /\ waiter[1].key \notin DOMAIN futures
  /\ waiter[1].fut = "result" /\ waiter[2].fut = "result"
  /\ waiter[1].data = waiter[2].data
  /\ delivered[Len(delivered)].n = waiter[1].data
  /\ KeyOf(rx[waiter[1].data]) = waiter[1].key

\* What a call of wait_for_response has returned stays what it is, and it is
\* the data of its resolved future or, after its timer fired, None.
OneOutcome(w) ==
  /\ waiter[w].returned # "-"
     => /\ waiter'[w].returned = waiter[w].returned
        /\ waiter'[w].value = waiter[w].value
  /\ waiter'[w].returned = "data"
     => waiter'[w].fut = "result" /\ waiter'[w].value = waiter'[w].data
  /\ waiter'[w].returned = "None" => waiter'[w].timed /\ waiter'[w].value = 0

\* A delivery for a key whose list holds futures that are done resolves the
\* pending ones of the list and leaves the done ones as they are.
RestResolved ==
  (last'.op = "deliver" /\ ready # <<>> /\ Head(ready).p.functional_domain # "NONE"
     /\ Head(ready).p.attribute # 0)
  => LET ws == Registered(KeyOf(Head(ready).p))
     IN \A i \in 1..Len(ws) :
          IF waiter[ws[i]].fut = "pending"
          THEN waiter'[ws[i]].fut = "result" /\ waiter'[ws[i]].data = Head(ready).n
          ELSE waiter'[ws[i]] = waiter[ws[i]]

\* C18: however a delivery and the timeout of a waiter interleave, the call
\* returns once, either the data or None; set_result on a future that is done
\* raises nothing out of the handler; and the other waiters of the key are
\* resolved all the same.
C18_Step ==
  /\ \A w \in 1..Len(waiter) : OneOutcome(w)
  /\ RestResolved
  /\ fault' = FALSE

C18_TimeoutRace == [][C18_Step]_vars

\* The first waiter of a key timed out and its future was cancelled; the one
\* delivery for the key then met the cancelled future and resolved the second
\* waiter behind it.
C18_Witness ==
  /\ last.op = "deliver" /\ Len(delivered) = 1 /\ Len(waiter) = 2
  /\ waiter[1].key = waiter[2].key /\ waiter[1].key \notin DOMAIN futures
  /\ waiter[1].fut = "cancelled" /\ waiter[1].timed
  /\ waiter[2].fut = "result" /\ waiter[2].data = delivered[1].n
  /\ fault = FALSE

\* The timeout of a call and its return change that one call: the table of
\* waiters and every other waiter stay as they were, and nothing is raised.
OwnTimeout ==
  last'.op \in {"timeout", "resume"}
  => /\ futures' = futures
     /\ fault' = fault
     /\ Len(waiter') = Len(waiter)
     /\ \A v, w \in 1..Len(waiter) :
          v # w => waiter'[v] = waiter[v] \/ waiter'[w] = waiter[w]
     /\ \A w \in 1..Len(waiter) :
          waiter'[w].fut = "result" => waiter[w].fut = "result"

\* A call that returned without a resolved future returned None.
NoneOnTimeout ==
  \A w \in 1..Len(waiter') :
    (waiter'[w].returned # "-" /\ waiter'[w].fut # "result")
    => waiter'[w].returned = "None" /\ waiter'[w].timed

\* C19: a call of wait_for_response with a timeout returns; without a packet
\* of its key before the timeout it returns None and raises nothing; and the
\* timeout of one call neither resolves nor removes the other waiters.
C19_Terminates ==
  /\ [][OwnTimeout /\ NoneOnTimeout]_vars
  /\ \A w \in 1..MaxWaiters :
       (w \in 1..Len(waiter) /\ waiter[w].timeout)
       ~> (w \in 1..Len(waiter) /\ waiter[w].returned # "-")

\* Two calls wait on one key and nothing was delivered; the first has timed
\* out and returned None, the second is still pending and still registered.
C19_Witness ==
  /\ last.op = "resume" /\ delivered = <<>> /\ Len(waiter) = 2
  /\ waiter[1].key = waiter[2].key
  /\ waiter[1].returned = "None" /\ waiter[1].fut = "cancelled"
  /\ waiter[2].fut = "pending" /\ waiter[2].returned = "-"
  /\ Registered(waiter[1].key) = <<1, 2>>
  /\ fault = FALSE

\* The steps of a teardown: stop_listen, connection_lost, the reconnect
\* request, and the delivery of the notification {available: False}.
Teardown ==
  \/ last'.op \in {"stop_listen", "connection_lost", "reconnect_action"}
  \/ last'.op = "deliver" /\ last'.kind = "NONE"

\* No connection is open and no decoded packet awaits its delivery.
SessionGone ==
  /\ open_conns = {}
  /\ \A i \in Scheduled("data_received") : ready[i].p.functional_domain = "NONE"

\* C20: a teardown step leaves every waiter and the table of waiters as they
\* are, stop_listen with its state notification included; and while the
\* session is gone a pending future changes only by the timeout of its own
\* call, which cancels it.
C20_Step ==
  /\ Teardown => waiter' = waiter /\ futures' = futures
  /\ SessionGone
     => \A w \in 1..Len(waiter) :
          (waiter[w].fut = "pending" /\ waiter'[w].fut # "pending")
          => /\ last'.op \in {"timeout", "resume"}
             /\ waiter[w].timeout /\ waiter'[w].timed
             /\ waiter'[w].fut = "cancelled"
             /\ \A v \in 1..Len(waiter) : v # w => waiter'[v] = waiter[v]

C20_TeardownKeepsWaiters == [][C20_Step]_vars

\* A call waits; the client was stopped, the connection was lost and its
\* notification {available: False} has just been delivered: the future of the
\* call is still pending and still registered.
C20_Witness ==
  /\ last.op = "deliver" /\ last.kind = "NONE"
  /\ stopped /\ open_conns = {} /\ conns > 0
  /\ Len(waiter) > 0 /\ waiter[1].fut = "pending" /\ waiter[1].returned = "-"
  /\ Registered(waiter[1].key) # <<>> /\ Registered(waiter[1].key)[1] = 1

\* The one frame at hand is what serialize made of a message, as it was
\* made, and parse has run over it.
RoundTrip ==
  /\ parsed.done /\ origin.touched = "-"
  /\ Len(origin.frames) = 1 /\ origin.frames[1].made = "serialize"

\* The fields of message m without the *_REQUIRED ones that hold 0.
Expected(m) ==
  LET fields == MAPPING[<<m.functional_domain, m.attribute>>]
      required == {fields[i].name : i \in {j \in 1..Len(fields) :
                     fields[j].type \in {"INTEGER_REQUIRED", "TEMPERATURE_REQUIRED"}}}
  IN [name \in {n \in DOMAIN m.data : ~(n \in required /\ m.data[n] = Num(0))} |->
        m.data[name]]

\* C21: a message of the schema with all its fields set to values in range
\* is serialized, and parse of the bytes yields exactly one message, whose
\* fields are the fields of the original but for *_REQUIRED fields holding 0.
C21_RoundTrip ==
  /\ calc.f = "serialize" => ~calc.raised
  /\ (RoundTrip /\ origin.frames[1].msg.nack_attribute = -1)
     => /\ ~parsed.raised
        /\ Len(parsed.out) = 1
        /\ parsed.out[1].data = Expected(origin.frames[1].msg)

\* The last byte of frame b is the CRC of the bytes before it.
CrcValid(b) == _verify_crc(SubSeq(b, 1, Len(b) - 1), b[Len(b)])

\* C22: what parse yields comes from frames whose last byte is the CRC of
\* their other bytes: a frame with another last byte yields nothing, and a
\* valid frame of which one byte was changed yields nothing.
C22_CrcRejects ==
  /\ (parsed.done /\ origin.touched = "-" /\ Len(origin.frames) = 1
        /\ ~CrcValid(origin.frames[1].bytes))
     => parsed.out = <<>>
  /\ (parsed.done /\ origin.touched = "damaged") => parsed.out = <<>>

\* C23: the frame of a negative acknowledgement, whatever attribute 0..255
\* it rejects, is parsed into exactly one NackPacket with that attribute.
C23_NackAlwaysParsed ==
  (RoundTrip /\ origin.frames[1].msg.nack_attribute # -1)
  => /\ ~parsed.raised
     /\ Len(parsed.out) = 1
     /\ parsed.out[1].action = Action.NACK
     /\ parsed.out[1].nack_attribute = origin.frames[1].msg.nack_attribute

\* The keys of the messages the frames of fs stand for, in their order.
RECURSIVE ExpectedKeys(_)
ExpectedKeys(fs) ==
  IF fs = <<>> THEN <<>> ELSE Head(fs).expect \o ExpectedKeys(Tail(fs))

\* C24: parse of frames sent one after the other yields one message for each
\* known frame with a good CRC, in the order of the frames; the frames of an
\* unknown action, an unknown functional domain or an unmapped attribute
\* yield nothing and do not keep the frames after them from being parsed.
C24_FramesInOrder ==
  (parsed.done /\ origin.touched = "-")
  => /\ ~parsed.raised
     /\ [i \in 1..Len(parsed.out) |-> KeyOfPacket(parsed.out[i])]
          = ExpectedKeys(origin.frames)

\* C25: parse of any buffer, one that ends inside a frame included, ends
\* without raising, and what it yields is what the complete frames in front
\* of the cut stand for.
C25_ParseNeverRaises ==
  parsed.done
  => /\ ~parsed.raised
     /\ origin.touched = "truncated"
        => \A i \in 1..Len(parsed.out) :
             \E j \in 1..Len(origin.frames) :
               <<KeyOfPacket(parsed.out[i])>> = origin.frames[j].expect

Abs(n) == IF n < 0 THEN 0 - n ELSE n

\* Bit k of byte b.
Bit(b, k) == (b \div (2 ^ k)) % 2

\* C26: the encoded temperature holds floor(|v|) in bits 0-5, the half degree
\* in bit 6 and the sign in bit 7, decoding it gives v back for every v in
\* halves with |v| <= 63.5, and the six fixed values of the codec hold.
C26_Temperature ==
  /\ calc.f = "_encode_temperature"
     => LET h == calc.arg[2]
            e == calc.result[2] \div 2
        IN Abs(h) <= 127
           => /\ e \in 0..255
              /\ e % 64 = Abs(h) \div 2
              /\ Bit(e, 6) = Abs(h) % 2
              /\ Bit(e, 7) = (IF h < 0 THEN 1 ELSE 0)
              /\ _decode_temperature(e) = h
  /\ calc.f = "_encode_temperature" /\ calc.arg = Num(42)
     => calc.result = PyInt(21)
  /\ calc.f = "_encode_temperature" /\ calc.arg = Num(-53)
     => calc.result = PyInt(218)
  /\ calc.f = "_decode_temperature" /\ calc.arg = PyInt(21)
     => calc.result = Num(42)
  /\ calc.f = "_decode_temperature" /\ calc.arg = PyInt(149)
     => calc.result = Num(-42)
  /\ calc.f = "_decode_temperature" /\ calc.arg = PyInt(90)
     => calc.result = Num(53)
  /\ calc.f = "_decode_temperature" /\ calc.arg = PyInt(218)
     => calc.result = Num(-53)

\* -26.5 was encoded.
C26_Witness ==
  calc.f = "_encode_temperature" /\ calc.arg = Num(-53) /\ calc.result = PyInt(218)

\* C27: decoding the humidity byte b gives b for 1 <= b <= 99 and None for
\* 0, for every b >= 100 and for a negative b.
C27_Humidity ==
  calc.f = "_decode_humidity"
  => LET b == calc.arg[2] \div 2
     IN calc.result = (IF 1 <= b /\ b <= 99 THEN PyInt(b) ELSE PyNone)

\* The byte 100 was decoded to None.
C27_Witness ==
  calc.f = "_decode_humidity" /\ calc.arg = PyInt(100) /\ calc.result = PyNone

\* The coroutines inside _reconnect past its first test: in the sleep or in
\* create_connection.
Attempts == Count(task, {x \in TaskStates : x.pc \in {"sleep", "connect"}})

\* C28: a call of _reconnect that finds `reconnecting` set returns at once:
\* no coroutine enters the sleep or create_connection, no protocol and no
\* transport is made or closed, the subscriber is told nothing, and
\* connected, stopped and reconnecting stay as they are.  (The call made
\* inside the liveness loop comes after the loop's own notification of
\* auto_reconnecting, which is the only one of that step.)
C28_Step ==
  (reconnecting /\ last'.op \in {"reconnect_start", "loop_timeout"})
  => /\ Attempts' = Attempts
     /\ protocol' = protocol
     /\ sock' = sock
     /\ connected' = connected /\ stopped' = stopped
     /\ reconnecting' = reconnecting
     /\ reconnect_break_future' \in {reconnect_break_future, "cancelled", "pending"}
     /\ last'.op = "reconnect_start"
        => /\ notes' = <<>>
           /\ notified' = notified
           /\ reconnect_break_future' = reconnect_break_future
           /\ \E x \in TaskStates :
                /\ x.kind = "reconnect" /\ x.pc = "start"
                /\ task' = [task EXCEPT ![x] = @ - 1]
     /\ last'.op = "loop_timeout" => Len(notes') = 1

C28_ReentrantReconnect == [][C28_Step]_vars

\* A scheduled _reconnect ran while an attempt was in flight and returned.
C28_Witness ==
  /\ last.op = "reconnect_start" /\ reconnecting /\ notes = <<>>
  /\ Attempts > 0

\* The calls of _reconnect that are scheduled and have not started.
Retries == Count(task, {x \in TaskStates : x.kind = "reconnect" /\ x.pc = "start"})

\* C29: after a failed attempt of a client that was not stopped, the client
\* is still connecting: not stopped, not connected, reconnecting set, one
\* retry scheduled, and the subscriber was not told that reconnecting is
\* false.
C29_FailKeepsConnecting ==
  (last.op = "connect_fail" /\ ~stopped)
  => /\ ~connected
     /\ reconnecting
     /\ Retries = 1
     /\ \A i \in 1..Len(notes) : notes[i][3]

\* C30: every scheduled reconnect waits retry_connection_interval: the one
\* connection_lost asks for and the one that follows a failed attempt.
C30_RetryInterval ==
  \A x \in TaskStates :
    (x.kind = "reconnect" /\ x.pc = "start" /\ task[x] > 0)
    => x.w = retry_connection_interval

\* C31: the sequence of a queued message is the one before it plus one
\* modulo 128: it lies in 0..127, the first message of the session has 1,
\* 127 is followed by 0, and the queue holds, and so gives up, its messages
\* in the order they were queued, with consecutive sequences.
C31_Sequence ==
  /\ sequence \in 0..127
  /\ sequence = sent % 128
  /\ \A i \in 1..Len(packet_queue) :
       /\ packet_queue[i].sequence \in 0..127
       /\ packet_queue[i].sequence = packet_queue[i].id % 128
       /\ packet_queue[i].id = 1 => packet_queue[i].sequence = 1
       /\ i < Len(packet_queue)
          => /\ packet_queue[i + 1].id = packet_queue[i].id + 1
             /\ packet_queue[i + 1].sequence
                  = (IF packet_queue[i].sequence = 127 THEN 0
                     ELSE packet_queue[i].sequence + 1)
  /\ packet_queue # <<>>
     => packet_queue[Len(packet_queue)].sequence = sequence
  /\ \A i \in 1..Len(written) - 1 : written[i].id < written[i + 1].id

\* The queue holds the message with sequence 127 and after it the one with 0,
\* and messages before them were written.
C31_Witness ==
  /\ Len(packet_queue) = 2
  /\ packet_queue[1].sequence = 127 /\ packet_queue[2].sequence = 0
  /\ sequence = 0
  /\ Len(written) > 100

\* The bytes the last call of serialize returned.
Frame == Items(calc.result)

\* C32: a serialized frame starts with the byte 1 whatever revision the
\* message has; its third and fourth byte hold, high byte first, the number
\* of bytes between the four bytes of the envelope and the CRC, so the frame
\* is that number plus 5 bytes long; and parse reads the same number in them.
C32_Envelope ==
  (calc.f = "serialize" /\ ~calc.raised)
  => /\ Frame[1] = 1
     /\ Frame[3] \in 0..255 /\ Frame[4] \in 0..255
     /\ Frame[3] * 256 + Frame[4] = Len(Frame) - 5
     /\ CountAt(Frame, 0) = Len(Frame) - 5

\* configure_cos, built with revision 2, was serialized.
C32_Witness ==
  /\ calc.f = "serialize" /\ ~calc.raised
  /\ calc.arg.revision = 2
  /\ calc.arg.raw_data = List(ConfigureCosFlags)
  /\ Frame[1] = 1 /\ Frame[4] = Len(ConfigureCosFlags) + 3

\* The fields of the schema entry of message m.
FieldsOf(m) == MAPPING[<<m.functional_domain, m.attribute>>]

\* The places, among the fields of m's schema entry, of the *_REQUIRED fields
\* that m has no value for.
AbsentRequired(m) ==
  IF m.nack_attribute = -1 /\ m.raw_data = PyNone
     /\ m.action \in {Action.WRITE, Action.READ_RESPONSE, Action.COS}
     /\ <<m.functional_domain, m.attribute>> \in DOMAIN MAPPING
  THEN {i \in 1..Len(FieldsOf(m)) :
          /\ FieldsOf(m)[i].type \in {"INTEGER_REQUIRED", "TEMPERATURE_REQUIRED"}
          /\ FieldsOf(m)[i].name \notin DOMAIN m.data}
  ELSE {}

\* C33: serializing a message that has no value for an INTEGER_REQUIRED or a
\* TEMPERATURE_REQUIRED field of its schema entry gives a complete frame with
\* a good CRC, in which the byte of that field is 0.
C33_AbsentRequiredIsZero ==
  (calc.f = "serialize" /\ AbsentRequired(calc.arg) # {})
  => /\ ~calc.raised
     /\ Len(Frame) = Len(FieldsOf(calc.arg)) + 8
     /\ _verify_crc(SubSeq(Frame, 1, Len(Frame) - 1), Frame[Len(Frame)])
     /\ \A i \in AbsentRequired(calc.arg) : Frame[7 + i] = 0

\* A message with raw_data was serialized: its frame holds action, functional
\* domain and attribute and then the bytes of raw_data as they are, whatever
\* the schema has for it.
RawVerbatim ==
  (calc.f = "serialize" /\ calc.arg.raw_data # PyNone)
  => /\ ~calc.raised
     /\ SubSeq(Frame, 5, Len(Frame) - 1)
          = <<calc.arg.action, calc.arg.functional_domain, calc.arg.attribute>>
            \o Items(calc.arg.raw_data)

\* The message serialized is the write of Status/1 with raw_data, which only
\* configure_cos builds.
IsConfigureCos ==
  /\ calc.f = "serialize"
  /\ calc.arg.raw_data # PyNone
  /\ calc.arg.action = Action.WRITE
  /\ calc.arg.functional_domain = 7 /\ calc.arg.attribute = 1

\* C34 as stated: raw_data goes out as it is, and the write of configure_cos
\* carries 28 flag bytes.
C34_RawOverride28 ==
  /\ RawVerbatim
  /\ IsConfigureCos => Len(Frame) = 28 + 8

\* C34, amended: raw_data goes out as it is, and the write of configure_cos
\* carries 29 flag bytes.
C34_RawOverride ==
  /\ RawVerbatim
  /\ IsConfigureCos
     => /\ Len(Items(calc.arg.raw_data)) = 29
        /\ Len(Frame) = 29 + 8

\* configure_cos was serialized.
C34_Witness ==
  /\ IsConfigureCos /\ ~calc.raised
  /\ Len(Frame) = 37 /\ Frame[4] = 32

\* Action, functional domain and attribute of a queued message.
Triple(m) == <<m.action, m.functional_domain, m.attribute>>

\* Sequence q of messages holds the messages of a bootstrap only as whole
\* bootstraps: the first of the nine is followed by the eight others, and the
\* last of the nine comes after the eight others.
WholeBootstraps(q) ==
  \A i \in 1..Len(q) :
    /\ Triple(q[i]) = NineMessages[1]
       => /\ i + 8 <= Len(q)
          /\ \A k \in 1..8 : /\ Triple(q[i + k]) = NineMessages[k + 1]
                             /\ q[i + k].id = q[i].id + k
    /\ Triple(q[i]) = NineMessages[9]
       => i >= 9 /\ Triple(q[i - 8]) = NineMessages[1]

\* A bootstrap writes nothing, and a flush cycle takes the whole queue, and
\* with a transport writes it in the order of the queue.
C35_Step ==
  /\ last'.op = "_update_status"
     => /\ written' = written /\ dropped' = dropped
        /\ Len(packet_queue') = Len(packet_queue) + 9
  /\ last'.op = "_queue_loop"
     => /\ packet_queue' = <<>>
        /\ sess_transport # 0
           => written' = written \o [i \in 1..Len(packet_queue) |->
                                       [conn |-> sess_transport,
                                        id |-> packet_queue[i].id]]

\* C35: the nine messages of a bootstrap are all in the queue before one of
\* them is written: no flush cycle finds a part of them, and the cycle that
\* finds them writes them together in their order.
C35_BootstrapTogether ==
  /\ [](WholeBootstraps(packet_queue))
  /\ [][C35_Step]_vars

\* A flush cycle has written a bootstrap and a read request of a caller.
C35_Witness ==
  /\ last.op = "_queue_loop" /\ packet_queue = <<>>
  /\ booted >= 1 /\ Len(written) >= 10
  /\ \A i \in 1..9 : written[i + 1].id = written[i].id + 1

\* C36: a stopped client is not connected and has no open socket.
C36_StoppedNotConnected ==
  stopped => (~connected /\ OpenSockets = 0)

\* C37: at most one liveness loop waits on its timer at any time, and when
\* the reconnect of a liveness loop has succeeded with the client not stopped
\* exactly one does.
C37_OneLivenessLoop ==
  /\ Armed <= 1
  /\ (last.op = "connect_ok" /\ last.kind = "loop" /\ ~stopped) => Armed = 1

\* Message i waits in the outbound queue.
InQueue(i) == \E k \in 1..Len(packet_queue) : packet_queue[k].id = i

\* C38: once a serialization has failed, a message that waits in the queue
\* of a session with a transport still leaves the queue eventually: the flush
\* loop writes it (or the end of the connection discards it).
C38_FlushSurvivesFailure ==
  \A i \in 1..MaxMsgs :
    (fault /\ sess_transport # 0 /\ InQueue(i)) ~> ~InQueue(i)

\* C39: where transports close only because the client replaced their
\* session, the reconnect request that the connection_lost of such a
\* transport schedules leaves the current session alone when it runs: a
\* connected client with a live transport stays connected and keeps it.
C39_StaleLossKeepsSession ==
  [][(last'.op = "reconnect_start" /\ connected /\ Live)
       => (connected' /\ Live')]_vars

\* The coroutines there are, whatever they are at.
Coroutines == Count(task, TaskStates)

\* C40: start_listen_once starts one attempt and nothing else; the end of
\* that attempt, either way, starts no retry and no liveness loop; when the
\* attempt has failed the caller has the error and `reconnecting` is False,
\* and a start_listen that follows starts a connect attempt.
C40_Step ==
  /\ last'.op = "start_listen_once" =>
        /\ Coroutines' = Coroutines + 1
        /\ task'[TaskRec("once", "connect_once", "-", 0)]
             = task[TaskRec("once", "connect_once", "-", 0)] + 1
  /\ last'.op \in {"once_ok", "once_raised"} =>
        /\ Coroutines' = Coroutines - 1
        /\ task'[TaskRec("once", "connect_once", "-", 0)]
             = task[TaskRec("once", "connect_once", "-", 0)] - 1
  /\ last'.op = "once_raised" => ~reconnecting'
  /\ (last.op = "once_raised" /\ last'.op = "start_listen") =>
        Connecting' = Connecting + 1

C40_ListenOnce == [][C40_Step]_vars

====
